---- MODULE Spec2Model ----
(***************************************************************************)
(* State-machine model of the proxy pool (utils/proxy_provider.py), of the *)
(* fetch engine (utils/session_manager.py), of the decoder and the         *)
(* normalizer of the scraped feed (utils/fs_helpers.py), of the scrape    *)
(* batches and of the loader's loop over a folder of .json files           *)
(* (scrapers/fs_scraper.py, database/connection.py).                       *)
(*                                                                         *)
(* Strings are sequences of tokens.  The token HttpScheme stands for the   *)
(* substring "http://"; every other token stands for a piece of a          *)
(* host:port text.  An endpoint is a token sequence without HttpScheme.    *)
(***************************************************************************)
EXTENDS Integers, Sequences, FiniteSets, Bags, TLC

\* ------------------------------------------------------------------ bounds

\* Number of distinct host:port endpoints that occur in the two proxy files.
NumProxies == 2

\* Longest candidate file (proxies.txt), in lines; lines may repeat.
MaxCandLines == 2

\* Longest list _run_validation is called with on its own.
MaxRunList == 3

\* Longest .raw.txt file the decoder is given, in lines.
MaxLines == 3

\* Tournaments of a feed, and results of each of them.
MaxTournaments == 2

MaxResults == 2

\* Units of a scrape batch: the loop scrapes 7 dates, or 3 steps per team.
NumUnits == 3

\* Most .json files the loader finds in its input folder.
NumFiles == 3

\* Largest max_retries a SessionManager is constructed with (the default is 3).
MaxRetries == 3

\* Worker threads one validation run starts (ProxyProvider._validation_threads
\* is 10; every run starts that many, whatever the number of candidates).
NumWorkers == 2

\* initialize() calls made on one provider.
MaxInitCalls == 2

\* ------------------------------------------------------- strings and dicts

\* The token of the literal "http://" in f"http://{proxy}".
HttpScheme == 0

Endpoints == { <<i>> : i \in 1..NumProxies }

\* Python None, and a Python dict with the given items.
PyNone == [tag |-> "None"]

PyDict(items) == [tag |-> "dict", items |-> items]

EmptyItems == [k \in {} |-> <<>>]

\* bool(v) of a value that is None or a dict.
Truthy(v) == v.tag = "dict" /\ DOMAIN v.items # {}

\* What dict.get(key) gives for a missing key (None); a present value is a
\* non-empty string, so the empty sequence is free to stand for None.
NoneStr == <<>>

DictGet(d, key) == IF key \in DOMAIN d.items THEN d.items[key] ELSE NoneStr

\* f"http://{proxy}"
ProxyUrl(proxy) == <<HttpScheme>> \o proxy

\* {"http": f"http://{proxy}", "https": f"http://{proxy}"}
ProxyDict(proxy) == PyDict([k \in {"http", "https"} |-> ProxyUrl(proxy)])

\* s.replace("http://", ""): every occurrence is removed.
ReplaceScheme(s) == SelectSeq(s, LAMBDA t : t # HttpScheme)

\* Lexicographic order of two strings (sorted() on str).
RECURSIVE StrLess(_, _)
StrLess(a, b) ==
    IF a = <<>> THEN b # <<>>
    ELSE IF b = <<>> THEN FALSE
    ELSE IF Head(a) # Head(b) THEN Head(a) < Head(b)
    ELSE StrLess(Tail(a), Tail(b))

\* sorted(list(S))
RECURSIVE Sorted(_)
Sorted(S) ==
    IF S = {} THEN <<>>
    ELSE LET m == CHOOSE x \in S : \A y \in S : x = y \/ StrLess(x, y)
         IN  <<m>> \o Sorted(S \ {m})

Range(seq) == { seq[i] : i \in 1..Len(seq) }

SeqsUpTo(S, n) == UNION { [1..k -> S] : k \in 0..n }

Prefixes(seq) == { SubSeq(seq, 1, k) : k \in 0..Len(seq) }

\* ------------------------------------------------------------ proxy pool

\* What one health check (requests.get through the candidate) can end in.
CheckOutcomes ==
    { [kind |-> "response", status |-> 200],
      [kind |-> "response", status |-> 403],
      [kind |-> "exception", status |-> 0] }

\* One health-check outcome per endpoint: the network during one run.
Networks == [Endpoints -> CheckOutcomes]

\* The verdict with any response taken as a pass, whatever its status.
CheckPassesAnyResponse(outcome) == outcome.kind = "response"

\* The verdict with a raised exception taken as a pass as well.
CheckPassesOnError(outcome) ==
    outcome.kind = "exception" \/ outcome.status = 200

\* _validate_proxy_worker's verdict on one candidate.
CheckPasses(outcome) == outcome.kind = "response" /\ outcome.status = 200

\* _load_proxies_from_file: the stripped non-empty lines, or [] when the
\* file is absent or unreadable.
LoadProxiesFromFile(file, readable) == IF readable THEN file ELSE <<>>

\* _run_validation as its caller sees it when the call returns: the
\* candidates of the list whose check passed.  (A pass that a worker records
\* elsewhere is, for the caller, a check that did not pass; net ranges over
\* every outcome of every check.)
RunValidation(proxy_list, net) ==
    { p \in Range(proxy_list) : CheckPasses(net[p]) }

\* _revalidate_existing_proxies
RevalidateExistingProxies(valid, existing, net) ==
    IF existing = <<>> THEN valid ELSE RunValidation(existing, net)

\* _validate_new_proxies
ValidateNewProxies(valid, new_proxies, net) ==
    IF new_proxies = <<>> THEN valid
    ELSE LET proxies_to_check == Range(new_proxies) \ valid
         IN  IF proxies_to_check = {} THEN valid
             ELSE valid \cup RunValidation(Sorted(proxies_to_check), net)

\* _save_valid_proxies: the contents the file can have after the call.  An
\* empty validated set returns before the file is opened.  Otherwise the
\* sorted lines are written; when open() raises the file is untouched, and
\* when a write raises after open() truncated it a proper prefix is on disk.
SaveValidProxies(valid, file) ==
    IF valid = {} THEN {file}
    ELSE {Sorted(valid)} \cup {file} \cup Prefixes(Sorted(valid))

\* What can go wrong inside _save_valid_proxies' try block: nothing, open()
\* raising, or a write raising once `kept` lines are on disk.
WriteFaults(valid) ==
    { [kind |-> "none", kept |-> 0], [kind |-> "open", kept |-> 0] }
    \cup { [kind |-> "write", kept |-> k] : k \in 0..(Cardinality(valid) - 1) }

\* _save_valid_proxies that writes the members in reverse order.
SaveWithFaultUnsorted(valid, file, fault) ==
    IF valid = {} THEN file
    ELSE IF fault.kind = "open" THEN file
    ELSE IF fault.kind = "write" THEN SubSeq(Sorted(valid), 1, fault.kept)
    ELSE [ i \in 1..Cardinality(valid) |->
             Sorted(valid)[Cardinality(valid) + 1 - i] ]

\* _save_valid_proxies under one fault: the file after the call.
SaveWithFault(valid, file, fault) ==
    IF valid = {} THEN file
    ELSE IF fault.kind = "open" THEN file
    ELSE IF fault.kind = "write" THEN SubSeq(Sorted(valid), 1, fault.kept)
    ELSE Sorted(valid)

\* How the call ended: "skipped" (nothing to save), "written", or "failed"
\* (the except clause logged the error).
SaveOutcome(valid, fault) ==
    IF valid = {} THEN "skipped"
    ELSE IF fault.kind = "none" THEN "written" ELSE "failed"

\* get_random_proxy with the emptiness test off by one.
GetRandomProxyOffByOne(valid) ==
    IF Cardinality(valid) <= 1 THEN {PyNone} ELSE { ProxyDict(p) : p \in valid }

\* get_random_proxy drawing from every endpoint ever listed, not from the
\* current validated set.
GetRandomProxyStale(valid) == { ProxyDict(p) : p \in Endpoints }

\* get_random_proxy: the values the call can return.
GetRandomProxy(valid) ==
    IF valid = {} THEN {PyNone} ELSE { ProxyDict(p) : p \in valid }

\* mark_proxy_as_bad that looks up the URL without stripping its scheme.
MarkProxyAsBadKeepsScheme(valid, proxy_dict) ==
    IF ~Truthy(proxy_dict) \/ "http" \notin DOMAIN proxy_dict.items THEN valid
    ELSE LET proxy_address == proxy_dict.items["http"]
         IN  IF proxy_address \in valid THEN valid \ {proxy_address} ELSE valid

\* mark_proxy_as_bad that falls back to the 'https' entry.
MarkProxyAsBadAnyKey(valid, proxy_dict) ==
    IF ~Truthy(proxy_dict) THEN valid
    ELSE LET key == IF "http" \in DOMAIN proxy_dict.items THEN "http" ELSE "https"
             proxy_address == ReplaceScheme(proxy_dict.items[key])
         IN  IF proxy_address \in valid THEN valid \ {proxy_address} ELSE valid

\* mark_proxy_as_bad: the validated set after the call.
MarkProxyAsBad(valid, proxy_dict) ==
    IF ~Truthy(proxy_dict) \/ "http" \notin DOMAIN proxy_dict.items THEN valid
    ELSE LET proxy_address == ReplaceScheme(proxy_dict.items["http"])
         IN  IF proxy_address \in valid THEN valid \ {proxy_address} ELSE valid

\* ------------------------------------------------- requests and responses

\* requests.exceptions (and one exception outside it): each class with its
\* direct base classes.
ExceptionBases ==
    [ RequestException     |-> {},
      HTTPError            |-> {"RequestException"},
      ConnectionError      |-> {"RequestException"},
      ProxyError           |-> {"ConnectionError"},
      SSLError             |-> {"ConnectionError"},
      Timeout              |-> {"RequestException"},
      ConnectTimeout       |-> {"ConnectionError", "Timeout"},
      ReadTimeout          |-> {"Timeout"},
      ChunkedEncodingError |-> {"RequestException"},
      TooManyRedirects     |-> {"RequestException"},
      InvalidURL           |-> {"RequestException"},
      TypeError            |-> {} ]

RECURSIVE IsSubclass(_, _)
IsSubclass(cls, base) ==
    cls = base \/ \E b \in ExceptionBases[cls] : IsSubclass(b, base)

\* isinstance(e, (c1, c2, ...))
IsInstance(exc, classes) == \E c \in classes : IsSubclass(exc.cls, c)

\* An exception object: its class and what raised it.
Exc(cls, origin) == [cls |-> cls, origin |-> origin]

NoExc == Exc("None", "none")

\* The exceptions session.request itself can raise.
RequestRaises ==
    { Exc(c, "request") :
        c \in { "ProxyError", "ConnectTimeout", "ReadTimeout", "SSLError",
                "ChunkedEncodingError", "ConnectionError", "TooManyRedirects",
                "InvalidURL", "TypeError" } }

\* Response statuses: the ends of the 2xx range, a 3xx status, the ends of
\* the 4xx-5xx range and the first status past it.
Statuses == {200, 299, 300, 400, 599, 600}

Whitespace == {" ", "\n"}

\* Response bodies: empty, whitespace only, content, padded content.
Texts == { <<>>, <<" ", "\n">>, <<"x">>, <<" ", "x", "\n">> }

Response(status, text) == [status |-> status, text |-> text]

NoResponse == Response(0, <<>>)

\* str.strip()
RECURSIVE TextStrip(_)
TextStrip(text) ==
    IF text = <<>> THEN text
    ELSE IF Head(text) \in Whitespace THEN TextStrip(Tail(text))
    ELSE IF text[Len(text)] \in Whitespace
         THEN TextStrip(SubSeq(text, 1, Len(text) - 1))
    ELSE text

\* What one session.request(...) call ends in: a response or an exception.
Outcome(kind, response, exc) == [kind |-> kind, response |-> response, exc |-> exc]

RequestOutcomes ==
    { Outcome("response", Response(st, tx), NoExc) : st \in Statuses, tx \in Texts }
    \cup { Outcome("exception", NoResponse, e) : e \in RequestRaises }

\* raise_for_status that rejects server errors only.
RaiseForStatusServerOnly(status) == 500 <= status /\ status < 600

\* response.raise_for_status() raises HTTPError for 4xx and 5xx.
RaiseForStatus(status) == 400 <= status /\ status < 600

\* The try block of fetch_with_retry: the exception it raises, or NoExc when
\* it reaches "return response".
TryBlock(outcome) ==
    IF outcome.kind = "exception" THEN outcome.exc
    ELSE IF RaiseForStatus(outcome.response.status)
         THEN Exc("HTTPError", "raise_for_status")
    ELSE IF TextStrip(outcome.response.text) = <<>>
         THEN Exc("ConnectionError", "empty body")
    ELSE NoExc

\* The classes of the first except clause.
RetryableClasses ==
    { "ProxyError", "ConnectTimeout", "ReadTimeout", "SSLError",
      "ChunkedEncodingError", "ConnectionError" }

\* The first except clause also naming RequestException.
ExceptClauseRetriesAll(exc) ==
    IF IsInstance(exc, RetryableClasses \cup {"RequestException"}) THEN "retry"
    ELSE "uncaught"

\* Which except clause takes the exception: "retry" (the first), "raise"
\* (the second re-raises it) or "uncaught" (neither: it propagates).
ExceptClause(exc) ==
    IF IsInstance(exc, RetryableClasses) THEN "retry"
    ELSE IF IsInstance(exc, {"RequestException"}) THEN "raise"
    ELSE "uncaught"

\* range(n) with its end included.
InRangeInclusive(i, n) == 0 <= i /\ i <= n

\* i in range(n): the loop of fetch_with_retry has a pass for i.
InRange(i, n) == 0 <= i /\ i < n

\* A constructor that never raises.
NoValidProxiesNever(valid) == FALSE

\* "if not self.proxy_provider.valid_proxies" of SessionManager.__init__.
NoValidProxies(valid) == valid = {}

\* get_session: the proxies of the new session (a requests.Session starts
\* with proxies = {}; the header set does not influence any step).
GetSession(proxy) == IF Truthy(proxy) THEN proxy ELSE PyDict(EmptyItems)

\* ------------------------------------------------------------ the decoder

\* The separator character of the feed (written as a division sign in
\* fs_helpers.py) and the marker character.
Sep == "|"

Tilde == "~"

\* line.startswith(prefix)
StartsWith(s, prefix) ==
    Len(s) >= Len(prefix) /\ SubSeq(s, 1, Len(prefix)) = prefix

\* ch in s
Contains(s, ch) == \E i \in 1..Len(s) : s[i] = ch

\* s.lstrip(ch)
RECURSIVE LStrip(_, _)
LStrip(s, ch) ==
    IF s # <<>> /\ Head(s) = ch THEN LStrip(Tail(s), ch) ELSE s

\* s.split(Sep): the pieces between the separators.
RECURSIVE Split(_)
Split(s) ==
    IF ~Contains(s, Sep) THEN <<s>>
    ELSE LET i == CHOOSE k \in 1..Len(s) :
                      s[k] = Sep /\ \A j \in 1..(k - 1) : s[j] # Sep
         IN  <<SubSeq(s, 1, i - 1)>> \o Split(SubSeq(s, i + 1, Len(s)))

\* The codes stored in the tournament dict.
TournamentKeys ==
    { <<"Z", "A">>,
      <<"Z", "E", "E">>,
      <<"Z", "B">>,
      <<"Z", "Y">>,
      <<"Z", "C">>,
      <<"Z", "D">>,
      <<"Z", "E">>,
      <<"Z", "F">>,
      <<"Z", "O">>,
      <<"Z", "G">>,
      <<"Z", "H">>,
      <<"Z", "J">>,
      <<"Z", "L">>,
      <<"O", "A", "J">>,
      <<"Z", "X">>,
      <<"Z", "C", "C">>,
      <<"T", "S", "S">>,
      <<"Z", "A", "F">>,
      <<"Z", "K">>,
      <<"Z", "A", "C">> }

\* The result dict refuses the tournament codes only.
NotResultKeysButSA == TournamentKeys

\* The codes the result dict does not take.
NotResultKeys == TournamentKeys \cup { <<"S", "A">> }

\* The lines a .raw.txt file is made of (| is the separator):
\*   ~ZA|a        a Tournament-open line
\*   ZB|b         a tournament field
\*   ~AA|r        a Result-open line
\*   AD|v         a result field
\*   AD|v|w       a value that holds the separator
\*   SA|s         the code kept out of both records
\*   x            no separator
\*   " "          blank
\*   " ~ZA|c\n"   a padded Tournament-open line
\*   ~ZAX|q       the Tournament-open marker on a code that is no tournament code
\*   ZA|d         the code ZA without its marker
\*   AC|10        the game ended in overtime
\*   AC|1         the game ended otherwise
\*   AD|7         a number
\*   AD|          an empty value
\*   ~ZAC|c       a tournament field written with the marker
\*   ~ZA, ~AA     the markers on a line without separator
Lines ==
    { <<"~", "Z", "A">>,
      <<"~", "A", "A">>,
      <<"~", "Z", "A", "C", "|", "c">>,
      <<"A", "C", "|", "1", "0">>,
      <<"A", "C", "|", "1">>,
      <<"A", "D", "|", "7">>,
      <<"A", "D", "|">>,
      <<"~", "Z", "A", "|", "a">>,
      <<"Z", "B", "|", "b">>,
      <<"~", "A", "A", "|", "r">>,
      <<"A", "D", "|", "v">>,
      <<"A", "D", "|", "v", "|", "w">>,
      <<"S", "A", "|", "s">>,
      <<"x">>,
      <<" ">>,
      <<" ", "~", "Z", "A", "|", "c", "\n">>,
      <<"~", "Z", "A", "X", "|", "q">>,
      <<"Z", "A", "|", "d">> }

\* A dict object: its string items, and the list under "results" when
\* setdefault has created it (identities of result dicts, in list order).
EmptyDict == [fields |-> EmptyItems, results |-> <<>>, has_results |-> FALSE]

\* bool(d): a dict is true when it has a key.
DictTruthy(d) == DOMAIN d.fields # {} \/ d.has_results

\* d[key] = value
SetItem(d, key, value) ==
    [d EXCEPT !.fields = [ k \in DOMAIN d.fields \cup {key} |->
                             IF k = key THEN value ELSE d.fields[k] ]]

\* The decoder's locals: the dicts by identity, the list tournaments, and
\* the dicts current_tournament and current_result are bound to.
DecoderState(objs, list, ct, cr) ==
    [heap |-> objs, tournaments |-> list, current_tournament |-> ct,
     current_result |-> cr]

\* The result is put at the head of the results.
AppendResultInsertsFirst(st) ==
    [st EXCEPT !.heap[st.current_tournament].results =
                   <<st.current_result>> \o @,
               !.heap[st.current_tournament].has_results = TRUE]

\* current_tournament.setdefault("results", []).append(current_result)
AppendResult(st) ==
    [st EXCEPT !.heap[st.current_tournament].results =
                   Append(@, st.current_result),
               !.heap[st.current_tournament].has_results = TRUE]

\* The result is appended and current_result stays bound to the same dict.
SealResultKeepsDict(st) ==
    IF DictTruthy(st.heap[st.current_result]) THEN AppendResult(st) ELSE st

\* if current_result: append it to the results; current_result = {}
SealResult(st) ==
    IF DictTruthy(st.heap[st.current_result])
    THEN LET s1 == AppendResult(st)
         IN  [s1 EXCEPT !.heap = Append(@, EmptyDict),
                        !.current_result = Len(s1.heap) + 1]
    ELSE st

\* The tournament is put at the head of the list tournaments.
SealTournamentInsertsFirst(st) ==
    IF DictTruthy(st.heap[st.current_tournament])
    THEN LET s1 == SealResult(st)
             s2 == [s1 EXCEPT !.tournaments = <<s1.current_tournament>> \o @]
         IN  [s2 EXCEPT !.heap = Append(@, EmptyDict),
                        !.current_tournament = Len(s2.heap) + 1]
    ELSE st

\* if current_tournament: seal the result, tournaments.append(
\* current_tournament), current_tournament = {}
SealTournament(st) ==
    IF DictTruthy(st.heap[st.current_tournament])
    THEN LET s1 == SealResult(st)
             s2 == [s1 EXCEPT !.tournaments = Append(@, s1.current_tournament)]
         IN  [s2 EXCEPT !.heap = Append(@, EmptyDict),
                        !.current_tournament = Len(s2.heap) + 1]
    ELSE st

\* The code and the value of a line that holds the separator.
KeyOf(line) == LStrip(Split(line)[1], Tilde)

ValueOf(line) == Split(line)[2]

\* line.startswith('~ZA'), line.startswith('~AA')
OpensTournament(line) == StartsWith(line, <<"~", "Z", "A">>)

OpensResult(line) == StartsWith(line, <<"~", "A", "A">>)

\* The body of the loop for one line that holds the separator.
DecodeFields(st, line) ==
    LET s1 == IF OpensTournament(line) THEN SealTournament(st) ELSE st
        s2 == IF KeyOf(line) \in TournamentKeys
              THEN [s1 EXCEPT !.heap[s1.current_tournament] =
                                  SetItem(@, KeyOf(line), ValueOf(line))]
              ELSE s1
        s3 == IF OpensResult(line) THEN SealResult(s2) ELSE s2
    IN  IF KeyOf(line) \notin NotResultKeys
        THEN [s3 EXCEPT !.heap[s3.current_result] =
                            SetItem(@, KeyOf(line), ValueOf(line))]
        ELSE s3

\* The line is skipped: blank after strip(), or without the separator.
Skipped(raw) == TextStrip(raw) = <<>> \/ ~Contains(TextStrip(raw), Sep)

\* The Tournament-open marker is looked for before the separator.
DecodeLineSealsFirst(st, raw) ==
    IF Skipped(raw)
    THEN IF OpensTournament(TextStrip(raw)) THEN SealTournament(st) ELSE st
    ELSE DecodeFields(st, TextStrip(raw))

\* One pass of `for line in f`.
DecodeLine(st, raw) ==
    IF Skipped(raw) THEN st ELSE DecodeFields(st, TextStrip(raw))

\* After the loop the last tournament is appended without its last result.
FinalSealDropsResult(st) ==
    IF DictTruthy(st.heap[st.current_tournament])
    THEN [st EXCEPT !.tournaments = Append(@, st.current_tournament)]
    ELSE st

\* After the loop: the last tournament, with its last result, is appended.
FinalSeal(st) ==
    IF DictTruthy(st.heap[st.current_tournament])
    THEN LET s1 == IF DictTruthy(st.heap[st.current_result])
                   THEN AppendResult(st) ELSE st
         IN  [s1 EXCEPT !.tournaments = Append(@, s1.current_tournament)]
    ELSE st

\* --------------------------------------------------- the .raw.json file

\* A path at which no file exists.
NoFile == [tag |-> "absent"]

\* json.dump(tournaments, f): the dicts are written by value, each
\* tournament with its string items and, when it has the key "results",
\* with the items of the result dicts in the order of the list.
JsonDump(st) ==
    [tag |-> "json",
     data |-> [ i \in 1..Len(st.tournaments) |->
                 LET t == st.heap[st.tournaments[i]]
                 IN  [fields |-> t.fields,
                      has_results |-> t.has_results,
                      results |-> [ j \in 1..Len(t.results) |->
                                      st.heap[t.results[j]].fields ]] ]]

\* ------------------------------------------------------------ the normalizer

\* A Python str and a Python int as values of a normalized field.
PyStr(s) == [tag |-> "str", s |-> s]

PyInt(n) == [tag |-> "int", n |-> n]

\* raw.get(code) on a dict of string items.
RawGet(items, code) ==
    IF code \in DOMAIN items THEN PyStr(items[code]) ELSE PyNone

Digits == <<"0", "1", "2", "3", "4", "5", "6", "7", "8", "9">>

\* The number a run of decimal digits stands for, continued from acc; single
\* underscores between digits are passed over; -1 when s is no such run.
RECURSIVE ParseDigits(_, _)
ParseDigits(s, acc) ==
    IF s = <<>> THEN acc
    ELSE IF Head(s) \in Range(Digits)
         THEN ParseDigits(Tail(s),
                  10 * acc + (CHOOSE i \in 1..10 : Digits[i] = Head(s)) - 1)
    ELSE IF Head(s) = "_" /\ Tail(s) # <<>> /\ Head(Tail(s)) \in Range(Digits)
         THEN ParseDigits(Tail(s), acc)
    ELSE -1

\* int(s) of a str: surrounding whitespace is dropped, one sign is taken,
\* the rest must be decimal digits; ok is FALSE where int raises ValueError.
IntOfStr(s) ==
    LET t == TextStrip(s)
        signed == t # <<>> /\ Head(t) \in {"+", "-"}
        body == IF signed THEN Tail(t) ELSE t
        n == IF body # <<>> /\ Head(body) \in Range(Digits)
             THEN ParseDigits(body, 0) ELSE -1
    IN  [ok |-> n >= 0,
         n |-> IF signed /\ Head(t) = "-" THEN 0 - n ELSE n]

\* A string that int() rejects, the empty one too, gives 0.
ToIntOrNoneZeroDefault(value) ==
    IF value = PyNone THEN PyNone
    ELSE IF IntOfStr(value.s).ok THEN PyInt(IntOfStr(value.s).n) ELSE PyInt(0)

\* to_int_or_none(value): None for None, for '' and where int(value) raises.
ToIntOrNone(value) ==
    IF value = PyNone \/ value = PyStr(<<>>) THEN PyNone
    ELSE IF IntOfStr(value.s).ok THEN PyInt(IntOfStr(value.s).n) ELSE PyNone

\* The destination fields of a tournament and the codes they are read from.
TournamentFields ==
    [ area_src_id    |-> <<"Z", "B">>,
      area_name      |-> <<"Z", "Y">>,
      tourney_src_id |-> <<"Z", "E", "E">>,
      tourney_name   |-> <<"Z", "A">>,
      tourney_code   |-> <<"Z", "A", "C">>,
      tourney_url    |-> <<"Z", "L">>,
      tourney_logo   |-> <<"O", "A", "J">>,
      tourney_status |-> <<"Z", "C", "C">> ]

\* The destination fields of a result that take the raw string.
ResultTextFields ==
    [ game_src_id |-> <<"A", "A">>,
      home_src_id |-> <<"P", "X">>,
      away_src_id |-> <<"P", "Y">>,
      home_name   |-> <<"A", "E">>,
      away_name   |-> <<"A", "F">>,
      home_slug   |-> <<"W", "U">>,
      away_slug   |-> <<"W", "V">>,
      home_abbr   |-> <<"W", "M">>,
      away_abbr   |-> <<"W", "N">>,
      home_logo   |-> <<"O", "A">>,
      away_logo   |-> <<"O", "B">> ]

\* The destination fields of a result that go through to_int_or_none.
ResultIntFields ==
    [ game_ts    |-> <<"A", "D">>,
      home_score |-> <<"A", "G">>,
      away_score |-> <<"A", "H">>,
      home_q1    |-> <<"B", "A">>,
      home_q2    |-> <<"B", "C">>,
      home_q3    |-> <<"B", "E">>,
      home_q4    |-> <<"B", "G">>,
      home_ot1   |-> <<"B", "I">>,
      home_ot2   |-> <<"B", "K">>,
      away_q1    |-> <<"B", "B">>,
      away_q2    |-> <<"B", "D">>,
      away_q3    |-> <<"B", "F">>,
      away_q4    |-> <<"B", "H">>,
      away_ot1   |-> <<"B", "J">>,
      away_ot2   |-> <<"B", "L">> ]

\* The value of the code AC that stands for a game ended in overtime.
Overtime == <<"1", "0">>

\* game_end is "overtime" whenever the result has the code AC.
GameEndByPresence(raw_res) ==
    IF <<"A", "C">> \in DOMAIN raw_res
    THEN PyStr("overtime") ELSE PyStr("standard")

\* if raw_res.get('AC') == '10': 'overtime' else 'standard'
GameEnd(raw_res) ==
    IF RawGet(raw_res, <<"A", "C">>) = PyStr(Overtime)
    THEN PyStr("overtime") ELSE PyStr("standard")

\* The body of `for raw_res in raw['results']`: the dict nice_res.
NormalizeResult(raw_res) ==
    [ d \in DOMAIN ResultTextFields \cup DOMAIN ResultIntFields \cup {"game_end"}
        |-> IF d \in DOMAIN ResultTextFields
            THEN RawGet(raw_res, ResultTextFields[d])
            ELSE IF d \in DOMAIN ResultIntFields
            THEN ToIntOrNone(RawGet(raw_res, ResultIntFields[d]))
            ELSE GameEnd(raw_res) ]

\* The body of `for raw in data`: the dict nice, its results apart.
NormalizeTournament(raw) ==
    [fields |-> [ d \in DOMAIN TournamentFields |->
                    RawGet(raw.fields, TournamentFields[d]) ],
     results |-> [ j \in 1..Len(raw.results) |->
                     NormalizeResult(raw.results[j]) ]]

\* raw['results'] raises KeyError for a tournament without that key.
RaisesKeyError(data) == \E i \in 1..Len(data) : ~data[i].has_results

\* nice_list once the loop over data has ended.
NiceList(data) ==
    [tag |-> "json",
     data |-> [ i \in 1..Len(data) |-> NormalizeTournament(data[i]) ]]

\* The files an earlier run left for the same prefix: one tournament with
\* one result.
EarlierRawJson ==
    [tag |-> "json",
     data |-> << [fields |-> [k \in {<<"Z", "A">>} |-> <<"o">>],
                  has_results |-> TRUE,
                  results |-> << [k \in {<<"A", "A">>} |-> <<"o">>] >>] >>]

EarlierNiceJson == NiceList(EarlierRawJson.data)

\* ------------------------------------------------------------------ state

VARIABLES
    valid_file,       \* lines of valid_proxies.txt
    proxies_file,     \* lines of proxies.txt (the candidates)
    valid_proxies,    \* ProxyProvider.valid_proxies
    init_pc,          \* where ProxyProvider.initialize() stands
    sm,               \* "none": no SessionManager yet; "constructing": inside
                      \* __init__; "ready": constructed; "failed": __init__ raised
    max_retries,      \* SessionManager.max_retries
    pc,               \* where fetch_with_retry stands
    attempt,          \* the loop variable of fetch_with_retry
    session_proxies,  \* session.proxies of the current attempt
    current_proxy,    \* session.proxies.get('http')
    last_exception,   \* fetch_with_retry's last_exception
    result,           \* what the fetch_with_retry call returned or raised
    last_outcome,     \* what the latest session.request of the call ended in
    op,               \* the last call on the provider: name, argument, return
    evicted,          \* endpoints mark_proxy_as_bad removed, not validated since
    requests_sent,    \* session.request calls issued by the current call
    mark_calls,       \* mark_proxy_as_bad calls made by the current call
    \* -- validation at the level of threads (proxy_provider.py)
    proxy_queue,          \* ProxyProvider._proxy_queue: the items not yet taken
    unfinished_tasks,     \* queue.Queue.unfinished_tasks of _proxy_queue
    workers,              \* the worker threads alive: a bag of Worker records
    run_pc,               \* where _run_validation stands
    proxy_list,           \* _run_validation's proxy_list (of the latest run)
    put_count,            \* items of proxy_list already put on the queue
    found_valid_proxies,  \* _run_validation's found_valid_proxies (latest run)
    started,              \* threads the latest run has started
    init_calls,           \* initialize() calls on this provider so far
    run_ok,               \* endpoints whose check returned 200 in the latest run
    passed_ever,          \* endpoints whose check returned 200 at some time
    failed_ever,          \* endpoints whose check failed at some time
    loaded,               \* endpoints the current initialize() read from files
    save_outcome,         \* how _save_valid_proxies of this initialize() ended
    run_log,              \* get(), check and task_done() calls since the
                          \* latest run was entered
    \* -- the decoder (fs_helpers.py, convert_to_raw_json)
    dec_pc,               \* where convert_to_raw_json stands
    lines,                \* the lines of the .raw.txt file
    line_no,              \* lines the loop has consumed
    heap,                 \* the dict objects created so far, by identity
    tournaments,          \* the list tournaments: identities, in list order
    current_tournament,   \* identity of the dict current_tournament is bound to
    current_result,       \* identity of the dict current_result is bound to
    opened_at,            \* per dict: number of the last line that opened it
    \* -- the files of one prefix and the normalizer (convert_to_nice_json)
    raw_txt,              \* {prefix}.raw.txt: NoFile or its lines
    raw_json,             \* {prefix}.raw.json: NoFile or the list dumped to it
    nice_json,            \* {prefix}.json: NoFile or the list dumped to it
    nice_pc,              \* where convert_to_nice_json stands
    \* -- a scrape batch (fs_scraper.py)
    batch_pc,             \* where the batch function stands
    unit,                 \* the unit (date, or team and step) of the loop
    unit_files,           \* per unit: its .raw.txt, .raw.json and .json file
    fetched,              \* per unit: how its fetch_with_retry call ended
    load_ran,             \* load_scraped_data_to_db was called
    raised_in,            \* the stage whose exception left the batch function
    \* -- the loader's loop over a folder (fs_scraper.py, load_scraped_data_to_db)
    load_pc,              \* where load_scraped_data_to_db stands
    json_files,           \* the list json_files: what glob("*.json") found
    file_no,              \* position of file_path in json_files
    folder_files,         \* per .json file: where it is, what became of the
                          \* rows of its transaction, how often the loop took
                          \* it up and how the loop counted it
    total_stats           \* files_processed and files_failed of total_stats

vars == << valid_file, proxies_file, valid_proxies, init_pc, sm, max_retries, pc,
           attempt, session_proxies, current_proxy, last_exception, result,
           last_outcome, op, evicted, requests_sent, mark_calls,
           proxy_queue, unfinished_tasks, workers, run_pc, proxy_list, put_count,
           found_valid_proxies, started, init_calls, run_ok, passed_ever,
           failed_ever, loaded, save_outcome, run_log,
           dec_pc, lines, line_no, heap, tournaments, current_tournament,
           current_result, opened_at, raw_txt, raw_json, nice_json, nice_pc,
           batch_pc, unit, unit_files, fetched, load_ran, raised_in,
           load_pc, json_files, file_no, folder_files, total_stats >>

\* The state of thread-level validation.
validateVars == << proxy_queue, unfinished_tasks, workers, run_pc, proxy_list,
                   put_count, found_valid_proxies, started, init_calls, run_ok,
                   passed_ever, failed_ever, loaded, save_outcome, run_log >>

\* The state of a scrape batch.
batchVars == << batch_pc, unit, unit_files, fetched, load_ran, raised_in >>

\* The state of load_scraped_data_to_db.
loadVars == << load_pc, json_files, file_no, folder_files, total_stats >>

\* The files of the prefix and where the normalizer stands.
feedVars == << raw_txt, raw_json, nice_json, nice_pc >>

\* The state of the decoder and of the normalizer.
decodeVars == << dec_pc, lines, line_no, heap, tournaments, current_tournament,
                 current_result, opened_at, feedVars >>

fileVars == << valid_file, proxies_file >>

callVars == << pc, attempt, session_proxies, current_proxy, last_exception,
               result, last_outcome, requests_sent, mark_calls >>

\* fetch_with_retry has ended and its caller has not gone on yet.
Ended == {"returned", "raised", "exhausted"}

\* initialize() is not running.
InitResting == {"idle", "done"}

Op(name, arg, ret) == [name |-> name, arg |-> arg, ret |-> ret]

\* What a call of fetch_with_retry ends with.
Result(kind, response, exc) == [kind |-> kind, response |-> response, exc |-> exc]

NoResult == Result("none", NoResponse, NoExc)

NoOutcome == Outcome("none", NoResponse, NoExc)

\* The arguments mark_proxy_as_bad is called with from outside the retry loop:
\* None, {}, a dict without 'http', the dict get_random_proxy builds, and a
\* dict whose 'http' value has no scheme.
MarkArguments ==
    { PyNone, PyDict(EmptyItems) }
    \cup { PyDict([k \in {"https"} |-> ProxyUrl(p)]) : p \in Endpoints }
    \cup { ProxyDict(p) : p \in Endpoints }
    \cup { PyDict([k \in {"http"} |-> p]) : p \in Endpoints }

\* No get(), no check and no task_done() yet.
NoCalls ==
    [ dequeued |-> [p \in Endpoints |-> 0], checked |-> [p \in Endpoints |-> 0],
      task_done |-> 0 ]

\* No validation run is going on: an empty queue, no unfinished task.
NoRunYet ==
    /\ proxy_queue = <<>>
    /\ unfinished_tasks = 0
    /\ run_pc = "none"
    /\ proxy_list = <<>>
    /\ put_count = 0
    /\ found_valid_proxies = {}
    /\ started = 0
    /\ init_calls = 0
    /\ run_ok = {}
    /\ passed_ever = {}
    /\ failed_ever = {}
    /\ loaded = {}
    /\ save_outcome = "none"
    /\ run_log = NoCalls

\* ProxyProvider.__init__: an empty queue, no thread; nothing has run.
ValidateRest ==
    /\ NoRunYet
    /\ workers = EmptyBag

\* convert_to_raw_json has not been called: no input, no dict.
DecodeRest ==
    /\ dec_pc = "idle"
    /\ lines = <<>>
    /\ line_no = 0
    /\ heap = <<>>
    /\ tournaments = <<>>
    /\ current_tournament = 0
    /\ current_result = 0
    /\ opened_at = <<>>
    /\ nice_pc = "idle"

\* The files of a unit: each is absent, left by an earlier run ("earlier"),
\* written in this run from this run's response ("fresh"), or written in
\* this run from a file of an earlier run ("stale").
UnitFiles(txt, rawjson, nicejson) ==
    [raw_txt |-> txt, raw_json |-> rawjson, nice_json |-> nicejson]

NoUnitFiles == [ u \in 1..NumUnits |-> UnitFiles("absent", "absent", "absent") ]

\* No batch function was called.
BatchRest ==
    /\ batch_pc = "idle"
    /\ unit = 0
    /\ fetched = [ u \in 1..NumUnits |-> "none" ]
    /\ load_ran = FALSE
    /\ raised_in = "none"

\* One .json file of a folder: whether it is in the input and in the output
\* folder, the rows its transaction wrote ("none": no transaction yet,
\* "pending", "committed", "rolled_back"), the passes of the loop that took
\* it up, and the counter the loop added it to.
JsonFile(in_input, in_output, rows, attempts, counted) ==
    [ in_input |-> in_input, in_output |-> in_output, rows |-> rows,
      attempts |-> attempts, counted |-> counted ]

\* A file the batch left in the input folder, and a file that is not there.
InputFile == JsonFile(TRUE, FALSE, "none", 0, "none")

NoJsonFile == JsonFile(FALSE, FALSE, "none", 0, "none")

\* total_stats as lines 69-74 build it (its two file counters).
ZeroStats == [files_processed |-> 0, files_failed |-> 0]

\* load_scraped_data_to_db was not called.
LoadRest ==
    /\ load_pc = "idle"
    /\ json_files = <<>>
    /\ file_no = 0
    /\ total_stats = ZeroStats

\* No loader call and an empty input folder.
NoLoad ==
    /\ LoadRest
    /\ folder_files = [ f \in 1..NumFiles |-> NoJsonFile ]

\* Nothing was scraped for the prefix yet.
FeedRest ==
    /\ raw_txt = NoFile
    /\ raw_json = NoFile
    /\ nice_json = NoFile
    /\ unit_files = NoUnitFiles

\* The provider and the fetch engine before anything was constructed.
ProviderRest ==
    /\ valid_proxies = {}
    /\ init_pc = "idle"
    /\ sm = "none"
    /\ max_retries = 0
    /\ pc = "idle"
    /\ attempt = 0
    /\ session_proxies = PyDict(EmptyItems)
    /\ current_proxy = NoneStr
    /\ last_exception = NoExc
    /\ result = NoResult
    /\ last_outcome = NoOutcome
    /\ op = Op("none", PyNone, PyNone)
    /\ evicted = {}
    /\ requests_sent = 0
    /\ mark_calls = 0

\* Everything but the files, as it is before anything was constructed.
ProgramRest ==
    /\ ProviderRest
    /\ ValidateRest
    /\ DecodeRest
    /\ BatchRest
    /\ NoLoad

\* Everything but the two files of the pool.
InitRest ==
    /\ ProgramRest
    /\ FeedRest

\* The fetch engine starts from a first run (no valid_proxies.txt) or from a
\* file left by an earlier run, with no candidates or every endpoint as one.
Init ==
    /\ valid_file \in { <<>>, Sorted(Endpoints) }
    /\ proxies_file \in { <<>>, Sorted(Endpoints) }
    /\ InitRest

\* --------------------------------------------------- actions: initialize()

\* initialize() step 1, _revalidate_existing_proxies.
InitializeRevalidate ==
    /\ init_pc = "revalidate"
    /\ \E readable \in BOOLEAN, net \in Networks :
           valid_proxies' =
               RevalidateExistingProxies(
                   valid_proxies, LoadProxiesFromFile(valid_file, readable), net)
    /\ evicted' = evicted \ valid_proxies'
    /\ init_pc' = "validate_new"
    /\ UNCHANGED << fileVars, sm, max_retries, callVars, op >>
    /\ UNCHANGED << validateVars, decodeVars, batchVars, loadVars >>

\* initialize() step 2, _validate_new_proxies.
InitializeValidateNew ==
    /\ init_pc = "validate_new"
    /\ \E readable \in BOOLEAN, net \in Networks :
           valid_proxies' =
               ValidateNewProxies(
                   valid_proxies, LoadProxiesFromFile(proxies_file, readable), net)
    /\ evicted' = evicted \ valid_proxies'
    /\ init_pc' = "save"
    /\ UNCHANGED << fileVars, sm, max_retries, callVars, op >>
    /\ UNCHANGED << validateVars, decodeVars, batchVars, loadVars >>

\* initialize() step 3, _save_valid_proxies; initialize() returns.
InitializeSave ==
    /\ init_pc = "save"
    /\ valid_file' \in SaveValidProxies(valid_proxies, valid_file)
    /\ init_pc' = "done"
    /\ UNCHANGED << proxies_file, valid_proxies, sm, max_retries, callVars, op,
                    evicted >>
    /\ UNCHANGED << validateVars, decodeVars, batchVars, loadVars >>

\* ProxyProvider.initialize() is called on the provider.
ProviderInitialize ==
    /\ sm \in {"none", "ready"}
    /\ pc = "idle"
    /\ init_pc \in InitResting
    /\ init_pc' = "revalidate"
    /\ op' = Op("initialize", PyNone, PyNone)
    /\ UNCHANGED << fileVars, valid_proxies, sm, max_retries, callVars, evicted >>
    /\ UNCHANGED << validateVars, decodeVars, batchVars, loadVars >>

\* ProxyProvider.get_random_proxy() called from outside the retry loop.
ProviderGetRandomProxy ==
    /\ sm = "none"
    /\ init_pc \in InitResting
    /\ \E proxy \in GetRandomProxy(valid_proxies) :
           op' = Op("get_random_proxy", PyNone, proxy)
    /\ UNCHANGED << fileVars, valid_proxies, init_pc, sm, max_retries, callVars,
                    evicted >>
    /\ UNCHANGED << validateVars, decodeVars, batchVars, loadVars >>

\* mark_proxy_as_bad that also persists the validated set after the removal.
ProviderMarkProxyAsBadSaves ==
    /\ sm = "none"
    /\ init_pc \in InitResting
    /\ \E proxy_dict \in MarkArguments :
           /\ valid_proxies' = MarkProxyAsBad(valid_proxies, proxy_dict)
           /\ op' = Op("mark_proxy_as_bad", proxy_dict, PyNone)
    /\ evicted' = evicted \cup (valid_proxies \ valid_proxies')
    /\ valid_file' = Sorted(valid_proxies')
    /\ UNCHANGED << proxies_file, init_pc, sm, max_retries, callVars >>
    /\ UNCHANGED << validateVars, decodeVars, batchVars, loadVars >>

\* ProxyProvider.mark_proxy_as_bad(proxy_dict) called from outside the loop.
ProviderMarkProxyAsBad ==
    /\ sm = "none"
    /\ init_pc \in InitResting
    /\ \E proxy_dict \in MarkArguments :
           /\ valid_proxies' = MarkProxyAsBad(valid_proxies, proxy_dict)
           /\ op' = Op("mark_proxy_as_bad", proxy_dict, PyNone)
    /\ evicted' = evicted \cup (valid_proxies \ valid_proxies')
    /\ UNCHANGED << fileVars, init_pc, sm, max_retries, callVars >>
    /\ UNCHANGED << validateVars, decodeVars, batchVars, loadVars >>

\* ----------------------------------------------- actions: SessionManager

\* SessionManager.__init__(max_retries) up to its call of initialize(): a new
\* ProxyProvider (valid_proxies = set()) is created and initialize() entered.
SessionManagerInit ==
    /\ sm = "none"
    /\ init_pc \in InitResting
    /\ \E m \in 0..MaxRetries : max_retries' = m
    /\ valid_proxies' = {}
    /\ evicted' = {}
    /\ op' = Op("initialize", PyNone, PyNone)
    /\ init_pc' = "revalidate"
    /\ sm' = "constructing"
    /\ UNCHANGED << fileVars, callVars >>
    /\ UNCHANGED << validateVars, decodeVars, batchVars, loadVars >>

\* SessionManager.__init__ after initialize() returned: RuntimeError when no
\* proxy was validated, else the object exists.
SessionManagerInitCheck ==
    /\ sm = "constructing"
    /\ init_pc = "done"
    /\ sm' = IF NoValidProxies(valid_proxies) THEN "failed" ELSE "ready"
    /\ UNCHANGED << fileVars, valid_proxies, init_pc, max_retries, callVars, op,
                    evicted >>
    /\ UNCHANGED << validateVars, decodeVars, batchVars, loadVars >>

\* fetch_with_retry is called: last_exception = None, the loop is entered.
FetchWithRetry ==
    /\ sm = "ready"
    /\ init_pc \in InitResting
    /\ pc = "idle"
    /\ pc' = "loop"
    /\ last_exception' = NoExc
    /\ UNCHANGED << fileVars, valid_proxies, init_pc, sm, max_retries, attempt,
                    session_proxies, current_proxy, result, last_outcome, op,
                    evicted, requests_sent, mark_calls >>
    /\ UNCHANGED << validateVars, decodeVars, batchVars, loadVars >>

\* One pass of the loop up to session.request: get_session() draws a proxy,
\* current_proxy is read and the request is issued.
AttemptStart ==
    /\ pc = "loop"
    /\ InRange(attempt, max_retries)
    /\ \E proxy \in GetRandomProxy(valid_proxies) :
           /\ session_proxies' = GetSession(proxy)
           /\ current_proxy' = DictGet(GetSession(proxy), "http")
           /\ op' = Op("get_random_proxy", PyNone, proxy)
    /\ requests_sent' = requests_sent + 1
    /\ pc' = "request"
    /\ UNCHANGED << fileVars, valid_proxies, init_pc, sm, max_retries, attempt,
                    last_exception, result, last_outcome, evicted, mark_calls >>
    /\ UNCHANGED << validateVars, decodeVars, batchVars, loadVars >>

\* return response
AttemptReturns(outcome) ==
    /\ TryBlock(outcome) = NoExc
    /\ pc' = "returned"
    /\ result' = Result("response", outcome.response, NoExc)
    /\ UNCHANGED << valid_proxies, attempt, last_exception, op, evicted, mark_calls >>

\* The first except clause: remember the exception, mark the proxy bad when
\* the session has one, go on with the next pass.
AttemptRetries(outcome) ==
    /\ TryBlock(outcome) # NoExc
    /\ ExceptClause(TryBlock(outcome)) = "retry"
    /\ last_exception' = TryBlock(outcome)
    /\ IF current_proxy # NoneStr
       THEN /\ valid_proxies' = MarkProxyAsBad(valid_proxies, session_proxies)
            /\ op' = Op("mark_proxy_as_bad", session_proxies, PyNone)
            /\ mark_calls' = mark_calls + 1
       ELSE UNCHANGED << valid_proxies, op, mark_calls >>
    /\ evicted' = evicted \cup (valid_proxies \ valid_proxies')
    /\ attempt' = attempt + 1
    /\ pc' = "loop"
    /\ UNCHANGED result

\* The second except clause re-raises; any other exception propagates.
AttemptRaises(outcome) ==
    /\ TryBlock(outcome) # NoExc
    /\ ExceptClause(TryBlock(outcome)) \in {"raise", "uncaught"}
    /\ pc' = "raised"
    /\ result' = Result("raised", NoResponse, TryBlock(outcome))
    /\ UNCHANGED << valid_proxies, attempt, last_exception, op, evicted, mark_calls >>

\* session.request ends and the try statement handles what it ended in.
AttemptOutcome ==
    /\ pc = "request"
    /\ \E outcome \in RequestOutcomes :
           /\ last_outcome' = outcome
           /\ \/ AttemptReturns(outcome)
              \/ AttemptRetries(outcome)
              \/ AttemptRaises(outcome)
    /\ UNCHANGED << fileVars, init_pc, sm, max_retries, session_proxies,
                    current_proxy, requests_sent >>
    /\ UNCHANGED << validateVars, decodeVars, batchVars, loadVars >>

\* The loop is over: RuntimeError(... Last error: {last_exception}).
RetriesExhausted ==
    /\ pc = "loop"
    /\ ~InRange(attempt, max_retries)
    /\ pc' = "exhausted"
    /\ result' = Result("RuntimeError", NoResponse, last_exception)
    /\ UNCHANGED << fileVars, valid_proxies, init_pc, sm, max_retries, attempt,
                    session_proxies, current_proxy, last_exception, last_outcome,
                    op, evicted, requests_sent, mark_calls >>
    /\ UNCHANGED << validateVars, decodeVars, batchVars, loadVars >>

\* The caller of fetch_with_retry goes on: the call's frame is gone.
FetchWithRetryEnds ==
    /\ pc \in Ended
    /\ pc' = "idle"
    /\ attempt' = 0
    /\ session_proxies' = PyDict(EmptyItems)
    /\ current_proxy' = NoneStr
    /\ last_exception' = NoExc
    /\ result' = NoResult
    /\ last_outcome' = NoOutcome
    /\ requests_sent' = 0
    /\ mark_calls' = 0
    /\ UNCHANGED << fileVars, valid_proxies, init_pc, sm, max_retries, op, evicted >>
    /\ UNCHANGED << validateVars, decodeVars, batchVars, loadVars >>

\* ------------------------------------------------------ actions: decoder

\* The decoder's locals as one record, and their next values.
Decoder == DecoderState(heap, tournaments, current_tournament, current_result)

DecoderBecomes(st) ==
    /\ heap' = st.heap
    /\ tournaments' = st.tournaments
    /\ current_tournament' = st.current_tournament
    /\ current_result' = st.current_result

\* opened_at once line number n took the decoder to st: a new dict was
\* opened by no line yet; a line that starts with the Tournament-open marker
\* opens the dict current_tournament is bound to after it, a line that
\* starts with the Result-open marker the dict current_result is bound to.
OpenedBy(st, raw, n) ==
    [ i \in 1..Len(st.heap) |->
        IF ~Skipped(raw) /\ OpensTournament(TextStrip(raw))
           /\ i = st.current_tournament
        THEN n
        ELSE IF ~Skipped(raw) /\ OpensResult(TextStrip(raw))
                /\ i = st.current_result
        THEN n
        ELSE IF i <= Len(opened_at) THEN opened_at[i] ELSE 0 ]

\* The .raw.json file is opened for writing before the .raw.txt file is
\* looked for.
ConvertToRawJsonOpensFirst ==
    /\ dec_pc = "idle"
    /\ raw_json' = [tag |-> "json", data |-> <<>>]
    /\ \/ /\ raw_txt = NoFile
          /\ dec_pc' = "raised"
          /\ UNCHANGED << lines, heap, tournaments, current_tournament,
                          current_result, opened_at >>
       \/ /\ raw_txt # NoFile
          /\ dec_pc' = "loop"
          /\ lines' = raw_txt.lines
          /\ DecoderBecomes(DecoderState(<<EmptyDict, EmptyDict>>, <<>>, 1, 2))
          /\ opened_at' = <<0, 0>>
    /\ UNCHANGED << fileVars, valid_proxies, init_pc, sm, max_retries, callVars,
                    op, evicted, validateVars, batchVars, loadVars, line_no, raw_txt, nice_json,
                    nice_pc >>

\* convert_to_raw_json is called: FileNotFoundError when the .raw.txt file
\* does not exist; else tournaments = [], two empty dicts, the file is open.
ConvertToRawJson ==
    /\ dec_pc = "idle"
    /\ \/ /\ raw_txt = NoFile
          /\ dec_pc' = "raised"
          /\ UNCHANGED << lines, heap, tournaments, current_tournament,
                          current_result, opened_at >>
       \/ /\ raw_txt # NoFile
          /\ dec_pc' = "loop"
          /\ lines' = raw_txt.lines
          /\ DecoderBecomes(DecoderState(<<EmptyDict, EmptyDict>>, <<>>, 1, 2))
          /\ opened_at' = <<0, 0>>
    /\ UNCHANGED << fileVars, valid_proxies, init_pc, sm, max_retries, callVars,
                    op, evicted, validateVars, batchVars, loadVars, line_no, feedVars >>

\* The loop reads the next line of the file.
ReadLine ==
    /\ dec_pc = "loop"
    /\ line_no < Len(lines)
    /\ line_no' = line_no + 1
    /\ DecoderBecomes(DecodeLine(Decoder, lines[line_no + 1]))
    /\ opened_at' = OpenedBy(DecodeLine(Decoder, lines[line_no + 1]),
                             lines[line_no + 1], line_no + 1)
    /\ UNCHANGED << fileVars, valid_proxies, init_pc, sm, max_retries, callVars,
                    op, evicted, validateVars, batchVars, loadVars, dec_pc, lines, feedVars >>

\* The file is exhausted: the last tournament is appended and the list is
\* dumped to the .raw.json file.
EndOfFile ==
    /\ dec_pc = "loop"
    /\ line_no = Len(lines)
    /\ DecoderBecomes(FinalSeal(Decoder))
    /\ raw_json' = JsonDump(FinalSeal(Decoder))
    /\ dec_pc' = "done"
    /\ UNCHANGED << fileVars, valid_proxies, init_pc, sm, max_retries, callVars,
                    op, evicted, validateVars, batchVars, loadVars, lines, line_no, opened_at,
                    raw_txt, nice_json, nice_pc >>

\* ---------------------------------------------------- actions: normalizer

\* convert_to_nice_json, called once convert_to_raw_json has ended:
\* FileNotFoundError when the .raw.json file does not exist; KeyError out of
\* the loop when a tournament has no "results"; else nice_list is dumped to
\* the .json file.
ConvertToNiceJson ==
    /\ dec_pc \in {"raised", "done"}
    /\ nice_pc = "idle"
    /\ \/ /\ raw_json = NoFile
          /\ nice_pc' = "raised"
          /\ UNCHANGED nice_json
       \/ /\ raw_json # NoFile
          /\ RaisesKeyError(raw_json.data)
          /\ nice_pc' = "key_error"
          /\ UNCHANGED nice_json
       \/ /\ raw_json # NoFile
          /\ ~RaisesKeyError(raw_json.data)
          /\ nice_pc' = "done"
          /\ nice_json' = NiceList(raw_json.data)
    /\ UNCHANGED << fileVars, valid_proxies, init_pc, sm, max_retries, callVars,
                    op, evicted, validateVars, batchVars, loadVars, dec_pc, lines, line_no, heap,
                    tournaments, current_tournament, current_result, opened_at,
                    raw_txt, raw_json >>

\* ------------------------------------------------- actions: scrape batch

\* scrape_data_for_date_range or scrape_data_for_teams is called: it returns
\* at once when check_connection() fails or SessionManager() raises
\* RuntimeError; else the loop starts with its first unit.
ScrapeDataStarts ==
    /\ batch_pc = "idle"
    /\ \/ /\ batch_pc' = "not_started"
          /\ UNCHANGED unit
       \/ /\ batch_pc' = "scrape"
          /\ unit' = 1
    /\ UNCHANGED << fileVars, valid_proxies, init_pc, sm, max_retries, callVars,
                    op, evicted, validateVars, decodeVars, loadVars, unit_files, fetched,
                    load_ran, raised_in >>

\* scrape_basket_results for the unit: a response that fetch_with_retry
\* returns is written to the .raw.txt file; the RuntimeError of exhausted
\* retries is caught and printed, and nothing is written; an exception that
\* fetch_with_retry re-raises is not caught.
ScrapeBasketResults ==
    /\ batch_pc = "scrape"
    /\ \E kind \in Ended :
           /\ fetched' = [fetched EXCEPT ![unit] = kind]
           /\ unit_files' =
                  IF kind = "returned"
                  THEN [unit_files EXCEPT ![unit].raw_txt = "fresh"]
                  ELSE unit_files
           /\ batch_pc' = IF kind = "raised" THEN "raised" ELSE "to_raw"
           /\ raised_in' = IF kind = "raised" THEN "scrape" ELSE raised_in
    /\ UNCHANGED << fileVars, valid_proxies, init_pc, sm, max_retries, callVars,
                    op, evicted, validateVars, decodeVars, loadVars, unit, load_ran >>

\* What a converter writes: fresh when its input is of this run's response.
Derived(input) == IF input = "fresh" THEN "fresh" ELSE "stale"

\* convert_to_raw_json for the unit: FileNotFoundError, which nothing in the
\* batch function catches, when there is no .raw.txt file; else the
\* .raw.json file is written from it.
UnitToRawJson ==
    /\ batch_pc = "to_raw"
    /\ IF unit_files[unit].raw_txt = "absent"
       THEN /\ batch_pc' = "raised"
            /\ raised_in' = "to_raw"
            /\ UNCHANGED unit_files
       ELSE /\ batch_pc' = "to_nice"
            /\ unit_files' = [unit_files EXCEPT ![unit].raw_json =
                                  Derived(unit_files[unit].raw_txt)]
            /\ UNCHANGED raised_in
    /\ UNCHANGED << fileVars, valid_proxies, init_pc, sm, max_retries, callVars,
                    op, evicted, validateVars, decodeVars, loadVars, unit, fetched,
                    load_ran >>

\* convert_to_nice_json for the unit: KeyError, uncaught as well, when a
\* tournament of the .raw.json file has no results; else the .json file is
\* written, and the loop goes on to the next unit or ends.
UnitToNiceJson ==
    /\ batch_pc = "to_nice"
    /\ \/ /\ batch_pc' = "raised"
          /\ raised_in' = "to_nice"
          /\ UNCHANGED << unit_files, unit >>
       \/ /\ unit_files' = [unit_files EXCEPT ![unit].nice_json =
                                Derived(unit_files[unit].raw_json)]
          /\ batch_pc' = IF unit < NumUnits THEN "scrape" ELSE "load"
          /\ unit' = IF unit < NumUnits THEN unit + 1 ELSE unit
          /\ UNCHANGED raised_in
    /\ UNCHANGED << fileVars, valid_proxies, init_pc, sm, max_retries, callVars,
                    op, evicted, validateVars, decodeVars, loadVars, fetched, load_ran >>

\* After the loop load_scraped_data_to_db is called, and the batch function
\* returns.
LoadScrapedDataToDb ==
    /\ batch_pc = "load"
    /\ load_ran' = TRUE
    /\ batch_pc' = "returned"
    /\ UNCHANGED << fileVars, valid_proxies, init_pc, sm, max_retries, callVars,
                    op, evicted, validateVars, decodeVars, loadVars, unit, unit_files,
                    fetched, raised_in >>

\* -------------------------------------------------------- specifications

\* What an earlier run can have left for a unit: nothing, its three files,
\* or its two raw files (the .json file was moved away once it was loaded).
EarlierUnitFiles ==
    { UnitFiles("absent", "absent", "absent"),
      UnitFiles("earlier", "earlier", "earlier"),
      UnitFiles("earlier", "earlier", "absent") }

\* A scrape batch over NumUnits units.
InitBatch ==
    /\ valid_file = <<>>
    /\ proxies_file = <<>>
    /\ ProgramRest
    /\ raw_txt = NoFile
    /\ raw_json = NoFile
    /\ nice_json = NoFile
    /\ unit_files \in [1..NumUnits -> EarlierUnitFiles]

NextBatch ==
    \/ ScrapeDataStarts
    \/ ScrapeBasketResults
    \/ UnitToRawJson
    \/ UnitToNiceJson
    \/ LoadScrapedDataToDb

SpecBatch == InitBatch /\ [][NextBatch]_vars


\* A .raw.txt file with the given lines.
TextFile(ls) == [tag |-> "text", lines |-> ls]

\* The two converters run on a prefix whose .raw.txt file holds up to
\* MaxLines lines, with or without the output files of an earlier run, or
\* on a prefix without a .raw.txt file, with any of the earlier output files.
InitDecode ==
    /\ valid_file = <<>>
    /\ proxies_file = <<>>
    /\ ProgramRest
    /\ \/ /\ raw_txt \in { TextFile(ls) : ls \in SeqsUpTo(Lines, MaxLines) }
          /\ \/ raw_json = NoFile /\ nice_json = NoFile
             \/ raw_json = EarlierRawJson /\ nice_json = EarlierNiceJson
       \/ /\ raw_txt = NoFile
          /\ raw_json \in {NoFile, EarlierRawJson}
          /\ nice_json \in {NoFile, EarlierNiceJson}
    /\ unit_files = NoUnitFiles

NextDecode ==
    \/ ConvertToRawJson
    \/ ReadLine
    \/ EndOfFile
    \/ ConvertToNiceJson

SpecDecode == InitDecode /\ [][NextDecode]_vars

\* The line of a feed that carries a code and a value; every line is written
\* with the marker, as the feed writes its records.
FeedLine(code, value) == <<Tilde>> \o code \o <<Sep>> \o value

\* The text of a number of the feed.
StampText(n) == IF n = 7 THEN <<"7">> ELSE <<"1", "0">>

\* The tournaments of a feed in which every tournament has m results: a
\* name, a tournament code or none, and the timestamp of each result.
FeedTournaments(m) ==
    [name : {<<"a">>, <<"b">>}, coded : BOOLEAN, stamps : [1..m -> {7, 10}]]

\* The feeds of up to MaxTournaments tournaments with up to MaxResults
\* results each.
Feeds ==
    UNION { UNION { [1..n -> FeedTournaments(m)] : n \in 0..MaxTournaments }
            : m \in 0..MaxResults }

\* The lines of a tournament: ZA, then ZAC when it has a code, then AA and
\* AD for each result.
RECURSIVE ResultLines(_)
ResultLines(stamps) ==
    IF stamps = <<>> THEN <<>>
    ELSE << FeedLine(<<"A", "A">>, <<"r">>),
            FeedLine(<<"A", "D">>, StampText(Head(stamps))) >>
         \o ResultLines(Tail(stamps))

TournamentLines(t) ==
    << FeedLine(<<"Z", "A">>, t.name) >>
    \o (IF t.coded THEN << FeedLine(<<"Z", "A", "C">>, <<"c">>) >> ELSE <<>>)
    \o ResultLines(t.stamps)

RECURSIVE FeedText(_)
FeedText(feed) ==
    IF feed = <<>> THEN <<>>
    ELSE TournamentLines(Head(feed)) \o FeedText(Tail(feed))

\* The two converters run on the .raw.txt file of a feed (or on none).
InitFeed ==
    /\ valid_file = <<>>
    /\ proxies_file = <<>>
    /\ ProgramRest
    /\ raw_txt \in {NoFile} \cup { TextFile(FeedText(feed)) : feed \in Feeds }
    /\ raw_json = NoFile
    /\ nice_json = NoFile
    /\ unit_files = NoUnitFiles

SpecFeed == InitFeed /\ [][NextDecode]_vars

\* The fetch engine: a SessionManager is constructed and used.
Next ==
    \/ SessionManagerInit
    \/ SessionManagerInitCheck
    \/ ProviderInitialize
    \/ InitializeRevalidate
    \/ InitializeValidateNew
    \/ InitializeSave
    \/ FetchWithRetry
    \/ AttemptStart
    \/ AttemptOutcome
    \/ RetriesExhausted
    \/ FetchWithRetryEnds

Spec == Init /\ [][Next]_vars

\* The provider used on its own, with any two files.
InitProvider ==
    /\ valid_file \in { Sorted(S) : S \in SUBSET Endpoints }
    /\ proxies_file \in SeqsUpTo(Endpoints, MaxCandLines)
    /\ InitRest

NextProvider ==
    \/ ProviderInitialize
    \/ InitializeRevalidate
    \/ InitializeValidateNew
    \/ InitializeSave
    \/ ProviderGetRandomProxy
    \/ ProviderMarkProxyAsBad

SpecProvider == InitProvider /\ [][NextProvider]_vars

\* ------------------------------------------- validation, thread by thread

\* One worker thread: the set its valid_set argument refers to, where it
\* stands in _validate_proxy_worker, and the proxy it holds.  The target is
\* "found" (found_valid_proxies of the latest run), "valid" (the object
\* self.valid_proxies is bound to) or "dropped" (a set nothing else refers
\* to any more).  Threads that ended are not in the bag.
Worker(target, wpc, proxy) == [target |-> target, pc |-> wpc, proxy |-> proxy]

\* Thread(target=self._validate_proxy_worker, args=(found_valid_proxies,))
NewWorker == Worker("found", "while", NoneStr)

\* list(set): the elements in some order.
ListOfSet(S) == { s \in [1..Cardinality(S) -> S] : Range(s) = S }

RECURSIVE Copies(_, _)
Copies(B, S) ==
    IF S = {} THEN 0
    ELSE LET w == CHOOSE x \in S : TRUE
         IN  B[w] + Copies(B, S \ {w})

\* The callers of a run taking a copy of the returned set: the set the
\* threads write to is never self.valid_proxies.
ReboundCopies(target, caller) ==
    IF caller # "revalidate" /\ target = "valid" THEN "valid" ELSE "dropped"

\* What a worker's set is once the caller of the run has used the returned
\* set.  _revalidate_existing_proxies binds self.valid_proxies to it (the
\* set it was bound to before is dropped); _validate_new_proxies copies its
\* members with update() and drops it.
Rebound(target, caller) ==
    IF caller = "revalidate"
    THEN IF target = "found" THEN "valid" ELSE "dropped"
    ELSE IF target = "valid" THEN "valid" ELSE "dropped"

ReboundAll(B, caller) ==
    LET to(w) == [w EXCEPT !.target = Rebound(w.target, caller)]
        S == { to(w) : w \in BagToSet(B) }
    IN  [ v \in S |-> Copies(B, { w \in BagToSet(B) : to(w) = v }) ]

\* One thread of the bag goes from record w to record v.
Moves(w, v) == workers' = (workers (-) SetToBag({w})) (+) SetToBag({v})

runVars == << proxy_queue, unfinished_tasks, workers, run_pc, proxy_list,
              put_count, found_valid_proxies, started, run_ok, passed_ever,
              failed_ever, run_log >>

\* ProxyProvider.initialize() is called.
InitializeCalled ==
    /\ sm = "none"
    /\ pc = "idle"
    /\ init_pc \in InitResting
    /\ init_calls < MaxInitCalls
    /\ init_pc' = "revalidate"
    /\ init_calls' = init_calls + 1
    /\ loaded' = {}
    /\ save_outcome' = "none"
    /\ op' = Op("initialize", PyNone, PyNone)
    /\ UNCHANGED << fileVars, valid_proxies, sm, max_retries, callVars, evicted,
                    runVars, decodeVars, batchVars, loadVars >>

\* _run_validation is entered with proxy_list: a new found_valid_proxies.
RunValidationStarts(list) ==
    /\ proxy_list' = list
    /\ put_count' = 0
    /\ found_valid_proxies' = {}
    /\ started' = 0
    /\ run_ok' = {}
    /\ run_log' = NoCalls
    /\ run_pc' = IF list = <<>> THEN "start" ELSE "put"
    /\ UNCHANGED << proxy_queue, unfinished_tasks, workers, passed_ever,
                    failed_ever >>

\* _revalidate_existing_proxies up to its early return or its call of
\* _run_validation.
RevalidateStarts ==
    /\ init_pc = "revalidate"
    /\ run_pc = "none"
    /\ \E readable \in BOOLEAN :
           LET existing_proxies == LoadProxiesFromFile(valid_file, readable)
           IN  /\ loaded' = loaded \cup Range(existing_proxies)
               /\ IF existing_proxies = <<>>
                  THEN init_pc' = "validate_new" /\ UNCHANGED runVars
                  ELSE RunValidationStarts(existing_proxies) /\ UNCHANGED init_pc
    /\ UNCHANGED << fileVars, valid_proxies, sm, max_retries, callVars, op,
                    evicted, init_calls, save_outcome, decodeVars, batchVars, loadVars >>

\* _validate_new_proxies without the subtraction of the validated set.
ValidateNewStartsRechecksAll ==
    /\ init_pc = "validate_new"
    /\ run_pc = "none"
    /\ \E readable \in BOOLEAN :
           LET new_proxies == LoadProxiesFromFile(proxies_file, readable)
               proxies_to_check == Range(new_proxies)
           IN  /\ loaded' = loaded \cup Range(new_proxies)
               /\ IF new_proxies = <<>> \/ proxies_to_check = {}
                  THEN init_pc' = "save" /\ UNCHANGED runVars
                  ELSE /\ \E list \in ListOfSet(proxies_to_check) :
                              RunValidationStarts(list)
                       /\ UNCHANGED init_pc
    /\ UNCHANGED << fileVars, valid_proxies, sm, max_retries, callVars, op,
                    evicted, init_calls, save_outcome, decodeVars, batchVars, loadVars >>

\* _validate_new_proxies up to one of its early returns or its call of
\* _run_validation.
ValidateNewStarts ==
    /\ init_pc = "validate_new"
    /\ run_pc = "none"
    /\ \E readable \in BOOLEAN :
           LET new_proxies == LoadProxiesFromFile(proxies_file, readable)
               proxies_to_check == Range(new_proxies) \ valid_proxies
           IN  /\ loaded' = loaded \cup Range(new_proxies)
               /\ IF new_proxies = <<>> \/ proxies_to_check = {}
                  THEN init_pc' = "save" /\ UNCHANGED runVars
                  ELSE /\ \E list \in ListOfSet(proxies_to_check) :
                              RunValidationStarts(list)
                       /\ UNCHANGED init_pc
    /\ UNCHANGED << fileVars, valid_proxies, sm, max_retries, callVars, op,
                    evicted, init_calls, save_outcome, decodeVars, batchVars, loadVars >>

\* for proxy in proxy_list: self._proxy_queue.put(proxy)
RunPuts ==
    /\ run_pc = "put"
    /\ proxy_queue' = Append(proxy_queue, proxy_list[put_count + 1])
    /\ unfinished_tasks' = unfinished_tasks + 1
    /\ put_count' = put_count + 1
    /\ run_pc' = IF put_count + 1 < Len(proxy_list) THEN "put" ELSE "start"
    /\ UNCHANGED << fileVars, valid_proxies, init_pc, sm, max_retries, callVars,
                    op, evicted, workers, proxy_list, found_valid_proxies,
                    started, init_calls, run_ok, passed_ever, failed_ever,
                    loaded, save_outcome, run_log, decodeVars, batchVars, loadVars >>

\* for _ in range(self._validation_threads): thread.start()
RunStartsThread ==
    /\ run_pc = "start"
    /\ workers' = workers (+) SetToBag({NewWorker})
    /\ started' = started + 1
    /\ run_pc' = IF InRange(started + 1, NumWorkers) THEN "start" ELSE "join"
    /\ UNCHANGED << fileVars, valid_proxies, init_pc, sm, max_retries, callVars,
                    op, evicted, proxy_queue, unfinished_tasks, proxy_list,
                    put_count, found_valid_proxies, init_calls, run_ok,
                    passed_ever, failed_ever, loaded, save_outcome, run_log,
                    decodeVars, batchVars, loadVars >>

\* self._proxy_queue.join() returns (no unfinished task), _run_validation
\* returns found_valid_proxies and its caller uses it.
RunReturns ==
    /\ init_pc \in {"revalidate", "validate_new"}
    /\ run_pc = "join"
    /\ unfinished_tasks = 0
    /\ run_pc' = "none"
    /\ valid_proxies' = IF init_pc = "revalidate"
                        THEN found_valid_proxies
                        ELSE valid_proxies \cup found_valid_proxies
    /\ workers' = ReboundAll(workers, init_pc)
    /\ init_pc' = IF init_pc = "revalidate" THEN "validate_new" ELSE "save"
    /\ evicted' = evicted \ valid_proxies'
    /\ UNCHANGED << fileVars, sm, max_retries, callVars, op, proxy_queue,
                    unfinished_tasks, proxy_list, put_count, found_valid_proxies,
                    started, init_calls, run_ok, passed_ever, failed_ever,
                    loaded, save_outcome, run_log, decodeVars, batchVars, loadVars >>

\* _save_valid_proxies; initialize() returns, and the locals of the
\* validation runs it made are gone.
SaveAndReturn ==
    /\ init_pc = "save"
    /\ \E fault \in WriteFaults(valid_proxies) :
           /\ valid_file' = SaveWithFault(valid_proxies, valid_file, fault)
           /\ save_outcome' = SaveOutcome(valid_proxies, fault)
    /\ init_pc' = "done"
    /\ proxy_list' = <<>>
    /\ put_count' = 0
    /\ found_valid_proxies' = {}
    /\ started' = 0
    /\ run_ok' = {}
    /\ run_log' = NoCalls
    /\ UNCHANGED << proxies_file, valid_proxies, sm, max_retries, callVars, op,
                    evicted, proxy_queue, unfinished_tasks, workers, run_pc,
                    passed_ever, failed_ever, init_calls, loaded, decodeVars, batchVars, loadVars >>

\* while not self._proxy_queue.empty(): the test, and the thread's end when
\* the queue is empty.
WorkerWhile(w) ==
    /\ w.pc = "while"
    /\ IF proxy_queue = <<>>
       THEN workers' = workers (-) SetToBag({w})
       ELSE Moves(w, [w EXCEPT !.pc = "get"])
    /\ UNCHANGED << valid_proxies, evicted, proxy_queue, unfinished_tasks,
                    found_valid_proxies, run_ok, passed_ever, failed_ever,
                    run_log >>

\* A get() that hands out the head of the queue and leaves it there.
WorkerGetKeepsItem(w) ==
    /\ w.pc = "get"
    /\ proxy_queue # <<>>
    /\ proxy_queue' = proxy_queue
    /\ Moves(w, [w EXCEPT !.pc = "check", !.proxy = Head(proxy_queue)])
    /\ run_log' = [run_log EXCEPT !.dequeued[Head(proxy_queue)] = @ + 1]
    /\ UNCHANGED << valid_proxies, evicted, unfinished_tasks,
                    found_valid_proxies, run_ok, passed_ever, failed_ever >>

\* proxy = self._proxy_queue.get(): blocks while the queue is empty.
WorkerGet(w) ==
    /\ w.pc = "get"
    /\ proxy_queue # <<>>
    /\ proxy_queue' = Tail(proxy_queue)
    /\ Moves(w, [w EXCEPT !.pc = "check", !.proxy = Head(proxy_queue)])
    /\ run_log' = [run_log EXCEPT !.dequeued[Head(proxy_queue)] = @ + 1]
    /\ UNCHANGED << valid_proxies, evicted, unfinished_tasks,
                    found_valid_proxies, run_ok, passed_ever, failed_ever >>

\* valid_set.add(proxy) on the set the thread was started with.
ValidSetAdd(target, proxy) ==
    /\ found_valid_proxies' = IF target = "found"
                              THEN found_valid_proxies \cup {proxy}
                              ELSE found_valid_proxies
    /\ valid_proxies' = IF target = "valid"
                        THEN valid_proxies \cup {proxy}
                        ELSE valid_proxies

\* The try statement: requests.get through the proxy, the status test, the
\* add; except Exception: pass.
WorkerCheck(w) ==
    /\ w.pc = "check"
    /\ \E outcome \in CheckOutcomes :
           /\ IF CheckPasses(outcome)
              THEN ValidSetAdd(w.target, w.proxy)
              ELSE UNCHANGED << found_valid_proxies, valid_proxies >>
           /\ IF outcome.kind = "response" /\ outcome.status = 200
              THEN /\ run_ok' = run_ok \cup {w.proxy}
                   /\ passed_ever' = passed_ever \cup {w.proxy}
                   /\ UNCHANGED failed_ever
              ELSE /\ failed_ever' = failed_ever \cup {w.proxy}
                   /\ UNCHANGED << run_ok, passed_ever >>
    /\ evicted' = evicted \ valid_proxies'
    /\ run_log' = [run_log EXCEPT !.checked[w.proxy] = @ + 1]
    /\ Moves(w, [w EXCEPT !.pc = "task_done", !.proxy = NoneStr])
    /\ UNCHANGED << proxy_queue, unfinished_tasks >>

\* A worker whose finally clause does not call task_done().
WorkerTaskDoneSkipped(w) ==
    /\ w.pc = "task_done"
    /\ unfinished_tasks' = unfinished_tasks
    /\ run_log' = run_log
    /\ Moves(w, [w EXCEPT !.pc = "while"])
    /\ UNCHANGED << valid_proxies, evicted, proxy_queue, found_valid_proxies,
                    run_ok, passed_ever, failed_ever >>

\* finally: self._proxy_queue.task_done()
WorkerTaskDone(w) ==
    /\ w.pc = "task_done"
    /\ unfinished_tasks' = unfinished_tasks - 1
    /\ run_log' = [run_log EXCEPT !.task_done = @ + 1]
    /\ Moves(w, [w EXCEPT !.pc = "while"])
    /\ UNCHANGED << valid_proxies, evicted, proxy_queue, found_valid_proxies,
                    run_ok, passed_ever, failed_ever >>

\* One step of one worker thread.
WorkerStep ==
    /\ \E w \in BagToSet(workers) :
           \/ WorkerWhile(w)
           \/ WorkerGet(w)
           \/ WorkerCheck(w)
           \/ WorkerTaskDone(w)
    /\ UNCHANGED << fileVars, init_pc, sm, max_retries, callVars, op, run_pc,
                    proxy_list, put_count, started, init_calls, loaded,
                    save_outcome, decodeVars, batchVars, loadVars >>

\* initialize() is called on a provider that was just constructed.
InitializeFreshPool == init_calls = 0 /\ InitializeCalled

\* A new provider with any validated-proxies file and any candidate file,
\* repeated lines included: initialize() is called once and its
\* validation runs are taken thread by thread.
InitValidate ==
    /\ valid_file \in { Sorted(S) : S \in SUBSET Endpoints }
    /\ proxies_file \in SeqsUpTo(Endpoints, MaxCandLines)
    /\ InitRest

NextValidate ==
    \/ InitializeFreshPool
    \/ RevalidateStarts
    \/ ValidateNewStarts
    \/ RunPuts
    \/ RunStartsThread
    \/ RunReturns
    \/ SaveAndReturn
    \/ WorkerStep

SpecValidate == InitValidate /\ [][NextValidate]_vars

\* _run_validation(list) is called on its own, with any list.
RunValidationCalled ==
    /\ init_pc = "idle"
    /\ run_pc = "none"
    /\ started = 0
    /\ \E list \in SeqsUpTo(Endpoints, MaxRunList) : RunValidationStarts(list)
    /\ UNCHANGED << fileVars, valid_proxies, init_pc, sm, max_retries, callVars,
                    op, evicted, init_calls, loaded, save_outcome, decodeVars,
                    batchVars, loadVars >>

\* self._proxy_queue.join() returns and _run_validation returns
\* found_valid_proxies to a caller that is not initialize().
RunReturnsToCaller ==
    /\ init_pc = "idle"
    /\ run_pc = "join"
    /\ unfinished_tasks = 0
    /\ run_pc' = "none"
    /\ workers' = ReboundAll(workers, init_pc)
    /\ UNCHANGED << fileVars, valid_proxies, init_pc, sm, max_retries, callVars,
                    op, evicted, proxy_queue, unfinished_tasks, proxy_list,
                    put_count, found_valid_proxies, started, init_calls, run_ok,
                    passed_ever, failed_ever, loaded, save_outcome, run_log,
                    decodeVars, batchVars, loadVars >>

\* The threads an earlier run can have left behind: none, or one that passed
\* the emptiness test and is blocked in get() since.
LeftBehind == { EmptyBag, SetToBag({ Worker("dropped", "get", NoneStr) }) }

\* One validation run on its own: any list, the empty one included, on a
\* queue that is empty, with or without a thread left behind.
InitRun ==
    /\ valid_file = <<>>
    /\ proxies_file = <<>>
    /\ ProviderRest
    /\ NoRunYet
    /\ workers \in LeftBehind
    /\ DecodeRest
    /\ BatchRest
    /\ NoLoad
    /\ FeedRest

NextRun ==
    \/ RunValidationCalled
    \/ RunPuts
    \/ RunStartsThread
    \/ RunReturnsToCaller
    \/ WorkerStep

\* The main thread goes on whenever it can, and some thread that can take a
\* step takes one: every health check ends and no runnable thread is held
\* back for ever.
SpecRunFair ==
    /\ InitRun
    /\ [][NextRun]_vars
    /\ WF_vars(RunPuts)
    /\ WF_vars(RunStartsThread)
    /\ WF_vars(RunReturnsToCaller)
    /\ WF_vars(WorkerStep)

\* A provider that is initialized again and again while it is used, with
\* any validated-proxies file and no or one candidate.
InitPool ==
    /\ valid_file \in { Sorted(S) : S \in SUBSET Endpoints }
    /\ proxies_file \in Prefixes(SubSeq(Sorted(Endpoints), 1, 1))
    /\ InitRest

NextPool ==
    \/ InitializeCalled
    \/ RevalidateStarts
    \/ ValidateNewStarts
    \/ RunPuts
    \/ RunStartsThread
    \/ RunReturns
    \/ SaveAndReturn
    \/ WorkerStep
    \/ ProviderGetRandomProxy
    \/ ProviderMarkProxyAsBad

SpecPool == InitPool /\ [][NextPool]_vars

\* ------------------------------------------ the loader's loop over a folder

\* The file the loop is at.
FilePath == json_files[file_no]

\* The for statement takes the next file of json_files, or the function
\* logs the statistics and returns total_stats.
NextFile ==
    IF file_no < Len(json_files)
    THEN load_pc' = "load" /\ file_no' = file_no + 1
    ELSE load_pc' = "returned" /\ UNCHANGED file_no

\* An except clause that gives the batch up at the first failed file.
FileFailedStopsLoop(files) ==
    /\ folder_files' = [files EXCEPT ![FilePath].counted = "failed"]
    /\ total_stats' = [total_stats EXCEPT !.files_failed = @ + 1]
    /\ load_pc' = "returned"
    /\ UNCHANGED file_no

\* except Exception: files_failed += 1, the error is logged and the loop
\* goes on; files is the folder as the failed step left it.
FileFailed(files) ==
    /\ folder_files' = [files EXCEPT ![FilePath].counted = "failed"]
    /\ total_stats' = [total_stats EXCEPT !.files_failed = @ + 1]
    /\ NextFile

\* load_scraped_data_to_db up to its loop: return (None) when the input
\* folder is not a directory; else total_stats is built and the .json files
\* are listed, in the order glob yields them; return total_stats when there
\* is none.
LoadStarts ==
    /\ load_pc = "idle"
    /\ LET found == { f \in 1..NumFiles : folder_files[f].in_input }
       IN  \E is_dir \in BOOLEAN :
               /\ is_dir \/ found = {}
               /\ IF ~is_dir
                  THEN /\ load_pc' = "returned_none"
                       /\ UNCHANGED << json_files, file_no, total_stats >>
                  ELSE /\ total_stats' = ZeroStats
                       /\ \E list \in ListOfSet(found) :
                              /\ json_files' = list
                              /\ IF list = <<>>
                                 THEN load_pc' = "returned" /\ file_no' = 0
                                 ELSE load_pc' = "load" /\ file_no' = 1
    /\ UNCHANGED folder_files
    /\ UNCHANGED << fileVars, valid_proxies, init_pc, sm, max_retries, callVars,
                    op, evicted, validateVars, decodeVars, batchVars >>

\* The body of "with transaction() as cur": the transaction is open and
\* load_to_db or load_to_db_insert_only writes the file's rows; it returns
\* or raises (the ValueError of an invalid file, an error of the database).
LoadToDb ==
    /\ load_pc = "load"
    /\ folder_files' = [folder_files EXCEPT ![FilePath].rows = "pending",
                                            ![FilePath].attempts = @ + 1]
    /\ \E raised \in BOOLEAN :
           load_pc' = IF raised THEN "exit_raised" ELSE "exit"
    /\ UNCHANGED << json_files, file_no, total_stats >>
    /\ UNCHANGED << fileVars, valid_proxies, init_pc, sm, max_retries, callVars,
                    op, evicted, validateVars, decodeVars, batchVars >>

\* The with statement is left: conn.transaction() rolls back when the body
\* raised and commits when it did not; a commit that fails raises and
\* leaves the rows uncommitted.
TransactionExit ==
    /\ load_pc \in {"exit", "exit_raised"}
    /\ \E committed \in BOOLEAN :
           /\ load_pc = "exit_raised" => ~committed
           /\ IF committed
              THEN /\ folder_files' =
                          [folder_files EXCEPT ![FilePath].rows = "committed"]
                   /\ load_pc' = "move"
                   /\ UNCHANGED << file_no, total_stats >>
              ELSE FileFailed([folder_files EXCEPT ![FilePath].rows = "rolled_back"])
    /\ UNCHANGED json_files
    /\ UNCHANGED << fileVars, valid_proxies, init_pc, sm, max_retries, callVars,
                    op, evicted, validateVars, decodeVars, batchVars >>

\* What shutil.move can end in: the file is moved; it raises with the file
\* where it was; or, the folders being on two file systems, it raises once
\* the copy is made and the file is in both folders.
MoveOutcomes == {"moved", "raised", "raised_after_copy"}

\* shutil.move after the with statement, and files_processed += 1.
MoveFile ==
    /\ load_pc = "move"
    /\ \E outcome \in MoveOutcomes :
           IF outcome = "moved"
           THEN /\ folder_files' =
                       [folder_files EXCEPT ![FilePath].in_input = FALSE,
                                            ![FilePath].in_output = TRUE,
                                            ![FilePath].counted = "processed"]
                /\ total_stats' = [total_stats EXCEPT !.files_processed = @ + 1]
                /\ NextFile
           ELSE FileFailed([folder_files EXCEPT ![FilePath].in_output =
                                                   outcome = "raised_after_copy"])
    /\ UNCHANGED json_files
    /\ UNCHANGED << fileVars, valid_proxies, init_pc, sm, max_retries, callVars,
                    op, evicted, validateVars, decodeVars, batchVars >>

\* The loader called on an input folder that holds any of NumFiles .json
\* files.
InitLoad ==
    /\ valid_file = <<>>
    /\ proxies_file = <<>>
    /\ ProviderRest
    /\ ValidateRest
    /\ DecodeRest
    /\ BatchRest
    /\ LoadRest
    /\ FeedRest
    /\ folder_files \in [1..NumFiles -> {InputFile, NoJsonFile}]

NextLoad ==
    \/ LoadStarts
    \/ LoadToDb
    \/ TransactionExit
    \/ MoveFile

SpecLoad == InitLoad /\ [][NextLoad]_vars

\* ----------------------------------------------------------------- claims

\* The endpoint a proxy URL names: the URL without its "http://".
EndpointOf(url) == SelectSeq(url, LAMBDA t : t # HttpScheme)

\* A body with at least one character that is not whitespace.
HasContent(text) == \E i \in 1..Len(text) : text[i] \notin Whitespace

\* The request in flight is routed through the endpoint of its session.
SentThroughValidated ==
    /\ current_proxy # NoneStr
    /\ EndpointOf(current_proxy) \in valid_proxies

\* C1: every request fetch_with_retry issues is sent through a proxy drawn
\* from the validated set; no attempt is sent with no proxy bound to its
\* session.
C1_EveryRequestUsesValidatedProxy == pc = "request" => SentThroughValidated

\* C2 as stated: a response is returned only if its status is 2xx and its
\* body is non-empty (not empty, not whitespace only).
C2_ReturnsOnly2xxWithBody ==
    pc = "returned" =>
        /\ result.kind = "response"
        /\ result.response.status \in 200..299
        /\ HasContent(result.response.text)

\* C2 amended: a response is returned only if its status is outside 400..599
\* (the statuses raise_for_status rejects) and its body is non-empty; a
\* response is handed to the caller in no other way.
C2_ReturnsOnlyNonErrorWithBody ==
    /\ result.kind = "response" => pc = "returned"
    /\ pc = "returned" =>
           /\ result.kind = "response"
           /\ result.response.status \notin 400..599
           /\ HasContent(result.response.text)

\* A returned response whose status is not 2xx.
C2_Witness ==
    /\ pc = "returned"
    /\ result.response.status = 300
    /\ result.response.text = <<" ", "x", "\n">>

\* C3: when attempts 1..k-1 failed with retryable errors and attempt k
\* succeeds, the call returns attempt k's response, has issued k requests,
\* has made exactly k-1 mark_proxy_as_bad calls, and the proxy of attempt k
\* is still in the validated set.  (attempt is k-1 at that point.)
C3_SuccessAfterRetries ==
    pc = "returned" =>
        /\ result.response = last_outcome.response
        /\ requests_sent = attempt + 1
        /\ mark_calls = attempt
        /\ SentThroughValidated

\* The conditions the first except clause is documented to take.
RetryableCondition(outcome) ==
    \/ /\ outcome.kind = "exception"
       /\ outcome.exc.cls \in { "ProxyError", "ConnectTimeout", "ReadTimeout",
                                "SSLError", "ChunkedEncodingError",
                                "ConnectionError" }
    \/ /\ outcome.kind = "response"
       /\ outcome.response.status \notin 400..599
       /\ ~HasContent(outcome.response.text)

\* session.request has just ended.
AttemptEnds == pc = "request" /\ pc' # "request"

\* C4: an attempt that fails with a retryable condition removes its proxy
\* from the validated set before the next attempt starts, and the loop goes
\* on to the next attempt while the attempt budget is not used up.
C4_RetryableEvictsAndContinues ==
    /\ [][ AttemptEnds /\ RetryableCondition(last_outcome') =>
               /\ pc' = "loop"
               /\ attempt' = attempt + 1
               /\ current_proxy # NoneStr =>
                      EndpointOf(current_proxy) \notin valid_proxies'
         ]_vars
    /\ [](pc = "loop" /\ attempt < max_retries => ENABLED AttemptStart)

\* A second attempt is in flight after the first lost its proxy to an empty
\* body.
C4_Witness ==
    /\ pc = "request"
    /\ attempt = 1
    /\ last_exception = Exc("ConnectionError", "empty body")
    /\ evicted # {}
    /\ SentThroughValidated

\* A request failure outside the retryable conditions: an error status, or an
\* exception of requests that is none of the retryable classes.
NonRetryableCondition(outcome) ==
    \/ /\ outcome.kind = "response"
       /\ outcome.response.status \in 400..599
    \/ /\ outcome.kind = "exception"
       /\ outcome.exc.cls \in { "TooManyRedirects", "InvalidURL" }

\* C5: an attempt that fails with a non-retryable request error raises it to
\* the caller at once: no further attempt, no mark_proxy_as_bad, the
\* validated set unchanged.
C5_NonRetryableRaisesAtOnce ==
    /\ [][ AttemptEnds /\ NonRetryableCondition(last_outcome') =>
               /\ pc' = "raised"
               /\ result'.kind = "raised"
               /\ result'.exc.cls =
                      IF last_outcome'.kind = "exception"
                      THEN last_outcome'.exc.cls ELSE "HTTPError"
               /\ valid_proxies' = valid_proxies
               /\ mark_calls' = mark_calls
               /\ evicted' = evicted
         ]_vars
    /\ [][ pc = "raised" => pc' \in {"raised", "idle"} /\ requests_sent' <= requests_sent
         ]_vars

\* An error status on the second attempt is raised with the proxy kept.
C5_Witness ==
    /\ pc = "raised"
    /\ attempt = 1
    /\ result.exc.cls = "HTTPError"
    /\ last_outcome.response.status = 599
    /\ SentThroughValidated

\* The exception the latest attempt failed with.
FailureOf(outcome) ==
    IF outcome.kind = "exception" THEN outcome.exc.cls ELSE "ConnectionError"

\* C6: when every attempt fails with a retryable error the call issues
\* exactly max_retries requests, then raises the exhaustion error carrying the
\* last attempt's failure, and returns no response; no call issues more than
\* max_retries requests.
C6_ExhaustionAfterMaxAttempts ==
    /\ requests_sent <= max_retries
    /\ pc = "exhausted" =>
           /\ requests_sent = max_retries
           /\ result.kind = "RuntimeError"
           /\ result.response = NoResponse
           /\ max_retries > 0 =>
                  /\ RetryableCondition(last_outcome)
                  /\ result.exc.cls = FailureOf(last_outcome)
                  /\ result.exc = last_exception

\* Three attempts failed, the last one with a read timeout.
C6_Witness ==
    /\ pc = "exhausted"
    /\ max_retries = 3
    /\ requests_sent = 3
    /\ result.exc.cls = "ReadTimeout"

\* C7: the constructor initializes the pool and raises the no-proxies error
\* exactly when the validated set is empty afterwards; without a constructed
\* SessionManager fetch_with_retry cannot be called and no request is issued.
C7_NoProxiesNoSessionManager ==
    /\ [][ sm = "constructing" /\ sm' # "constructing" =>
               /\ init_pc = "done"
               /\ sm' = "failed" <=> valid_proxies = {}
               /\ sm' = "ready" <=> valid_proxies # {}
         ]_vars
    /\ [](sm # "ready" =>
               /\ pc = "idle"
               /\ requests_sent = 0
               /\ ~ENABLED FetchWithRetry)
    /\ [][ sm = "failed" => sm' = "failed" ]_vars

\* The constructor raised although the files named endpoints.
C7_Witness ==
    /\ sm = "failed"
    /\ valid_proxies = {}
    /\ proxies_file # <<>>

\* C8: get_random_proxy returns nothing if and only if the validated set is
\* empty, and a non-empty return names a member of the validated set.
C8_RandomProxyIsMember ==
    op.name = "get_random_proxy" =>
        /\ op.ret = PyNone <=> valid_proxies = {}
        /\ op.ret # PyNone =>
               \E p \in valid_proxies :
                   op.ret.items = [k \in {"http", "https"} |-> <<HttpScheme>> \o p]

\* A draw from a pool that an eviction left with one member.
C8_Witness ==
    /\ op.name = "get_random_proxy"
    /\ op.ret # PyNone
    /\ evicted # {}
    /\ Cardinality(valid_proxies) = 1

\* C9: once mark_proxy_as_bad has removed p, no get_random_proxy or
\* get_session returns p and no fetch attempt uses p until an initialize()
\* validates p again.
C9_EvictedNeverDrawn ==
    /\ op.name = "get_random_proxy" /\ op.ret # PyNone =>
           EndpointOf(op.ret.items["http"]) \notin evicted
    /\ pc = "request" /\ current_proxy # NoneStr =>
           EndpointOf(current_proxy) \notin evicted
    /\ pc = "request" /\ DOMAIN session_proxies.items # {} =>
           \A k \in DOMAIN session_proxies.items :
               EndpointOf(session_proxies.items[k]) \notin evicted

\* After an eviction, get_session has drawn again and the next attempt runs
\* through the endpoint that is left.
C9_Witness ==
    /\ pc = "request"
    /\ attempt = 1
    /\ evicted # {}
    /\ op.name = "get_random_proxy"
    /\ op.ret = session_proxies
    /\ current_proxy # NoneStr

\* A step that is one mark_proxy_as_bad call of the provider used on its own.
MarkCall ==
    /\ op'.name = "mark_proxy_as_bad"
    /\ init_pc \in InitResting
    /\ init_pc' = init_pc
    /\ pc = "idle"

\* The argument carries no endpoint of the validated set.
NoMember(proxy_dict, valid) ==
    \/ proxy_dict = PyNone
    \/ "http" \notin DOMAIN proxy_dict.items
    \/ EndpointOf(proxy_dict.items["http"]) \notin valid

\* C10: mark_proxy_as_bad is an idempotent removal: a second call with the
\* same proxy leaves the validated set as the first call left it, and a call
\* with a proxy that is no member, or with an empty or keyless argument,
\* leaves the validated set unchanged.
C10_MarkBadIdempotent ==
    /\ [][ MarkCall /\ op.name = "mark_proxy_as_bad" /\ op'.arg = op.arg =>
               valid_proxies' = valid_proxies ]_vars
    /\ [][ MarkCall /\ NoMember(op'.arg, valid_proxies) =>
               valid_proxies' = valid_proxies ]_vars
    /\ [][ MarkCall /\ ~NoMember(op'.arg, valid_proxies) =>
               valid_proxies' = valid_proxies \ {EndpointOf(op'.arg.items["http"])}
         ]_vars

\* A call that removed a member while another member stayed.
C10_Witness ==
    /\ op.name = "mark_proxy_as_bad"
    /\ op.arg # PyNone
    /\ "http" \in DOMAIN op.arg.items
    /\ EndpointOf(op.arg.items["http"]) \in evicted
    /\ valid_proxies # {}

\* C11: mark_proxy_as_bad changes only the in-memory validated set: the
\* validated-proxies file and the candidate file are not written, nothing is
\* put on the queue, no thread is started and no validation run begins, and
\* every member of the validated set other than the endpoint the argument
\* names stays a member.
C11_MarkBadChangesOnlyTheSet ==
    [][ MarkCall =>
            /\ valid_file' = valid_file
            /\ proxies_file' = proxies_file
            /\ proxy_queue' = proxy_queue
            /\ unfinished_tasks' = unfinished_tasks
            /\ workers' = workers
            /\ run_pc' = run_pc
            /\ started' = started
            /\ valid_proxies' \subseteq valid_proxies
            /\ \A p \in valid_proxies \ valid_proxies' :
                   ~NoMember(op'.arg, {p}) ]_vars

\* A call removed a member that the validated-proxies file still lists, and
\* another member stayed.
C11_Witness ==
    /\ op.name = "mark_proxy_as_bad"
    /\ evicted \cap Range(valid_file) # {}
    /\ valid_proxies \cap Range(valid_file) # {}

\* _run_validation returns to its caller.
RunReturned == run_pc = "join" /\ run_pc' = "none"

\* The number of threads that stand at wpc.
ThreadsAt(B, wpc) == Copies(B, { w \in BagToSet(B) : w.pc = wpc })

\* A thread's health check ends.
CheckEnds == ThreadsAt(workers', "check") < ThreadsAt(workers, "check")

\* C12: the set of a validation run contains only candidates of that run
\* whose health check returned status 200 (so a candidate whose check
\* returned another status or raised is not in it), and a check that ends,
\* however it ends, leaves its thread alive at task_done with nothing raised
\* into the run.
C12_ReturnedSetOnlyPassed ==
    /\ [](found_valid_proxies \subseteq run_ok \cap Range(proxy_list))
    /\ [][ CheckEnds =>
               /\ ThreadsAt(workers', "task_done")
                      = ThreadsAt(workers, "task_done") + 1
               /\ run_pc' = run_pc
               /\ init_pc' = init_pc ]_vars

\* A run has returned a set that holds a candidate and leaves out another
\* candidate, whose check failed.
C12_Witness ==
    /\ run_pc = "none"
    /\ init_pc \in {"validate_new", "save"}
    /\ found_valid_proxies # {}
    /\ (Range(proxy_list) \cap failed_ever) \ found_valid_proxies # {}

\* C13: every candidate whose health check returned 200 during a validation
\* run is a member of the set that run returns, for the first run on a pool
\* and for every later one.
C13_NoLostUpdate ==
    run_pc = "none" => run_ok \subseteq found_valid_proxies

\* C14: when a validation run returns, the queue is drained and no thread
\* the run started is still alive.
C14_JoinBarrier ==
    [][ RunReturned =>
            /\ proxy_queue = <<>>
            /\ \A w \in BagToSet(workers) : w.target # "found" ]_vars

\* C15: re-validating a validated set while every health check returns 200
\* yields that set, the first time and every later time on the same pool.
C15_RevalidationIsStable ==
    [][ RunReturned /\ init_pc = "revalidate" /\ failed_ever = {} =>
            valid_proxies' = Range(proxy_list) ]_vars

\* initialize() returns from _save_valid_proxies.
InitializeReturns == init_pc = "save" /\ init_pc' = "done"

\* The file lists exactly the members of S, one per line, in sorted order.
ListsExactly(file, S) ==
    /\ Range(file) = S
    /\ Len(file) = Cardinality(S)
    /\ \A i, j \in 1..Len(file) : i < j => StrLess(file[i], file[j])

\* C16 as stated: when initialize() returns and the write did not fail, the
\* validated-proxies file lists exactly the validated set, sorted, whatever
\* the validated set is.
C16_FileHoldsValidatedSet ==
    [][ InitializeReturns /\ save_outcome' # "failed" =>
            ListsExactly(valid_file', valid_proxies') ]_vars

\* C16 amended: when initialize() returns with a non-empty validated set and
\* the write did not fail, the validated-proxies file lists exactly the
\* validated set, sorted; with an empty validated set the file is left as it
\* was.
C16_FileHoldsNonEmptyValidatedSet ==
    [][ InitializeReturns =>
            /\ save_outcome' = "written" =>
                   ListsExactly(valid_file', valid_proxies')
            /\ valid_proxies' = {} =>
                   valid_file' = valid_file /\ save_outcome' = "skipped"
            /\ valid_proxies' # {} => save_outcome' # "skipped" ]_vars

\* initialize() has returned after writing two validated endpoints.
C16_Witness ==
    /\ init_pc = "done"
    /\ save_outcome = "written"
    /\ Cardinality(valid_proxies) = 2
    /\ Len(valid_file) = 2

\* No endpoint's health check has both passed and failed.
StableNetwork == passed_ever \cap failed_ever = {}

\* C17: when initialize() on a fresh pool returns and the network was
\* stable, every endpoint read from the two files has been checked and the
\* validated set is exactly those of them whose check returns 200; a file
\* that could not be read contributes no endpoint, and initialize() returns
\* all the same.
C17_FreshInitializeValidatesFiles ==
    [][ InitializeReturns /\ init_calls = 1 /\ StableNetwork =>
            /\ loaded \subseteq passed_ever \cup failed_ever
            /\ valid_proxies' = loaded \cap passed_ever ]_vars

\* The first initialize() has returned under a stable network with an
\* endpoint validated, and it could not read the candidate file, which
\* lists another endpoint.
C17_Witness ==
    /\ init_pc = "done"
    /\ init_calls = 1
    /\ StableNetwork
    /\ valid_proxies # {}
    /\ ~(Range(proxies_file) \subseteq loaded)

\* C18: in every reachable state of the pool every member of the validated
\* set has passed the health check at some earlier point, and the validated
\* set is a set of endpoints (no endpoint is held twice).
C18_MembersPassedTheCheck ==
    /\ valid_proxies \subseteq passed_ever
    /\ valid_proxies \in SUBSET Endpoints

\* The pool after a removal and a second initialize(), with a member.
C18_Witness ==
    /\ init_calls = 2
    /\ init_pc = "done"
    /\ evicted # {}
    /\ valid_proxies # {}

\* The dicts that were appended to the list tournaments or to the results
\* of a tournament.
Sealed ==
    Range(tournaments)
    \cup UNION { Range(heap[i].results) : i \in 1..Len(heap) }

\* C19: the tournaments of the decoder's output are in the order of the
\* Tournament-open lines that opened them: of two tournaments in the list,
\* the earlier one was opened by the earlier line (a tournament that no
\* line opened can only be the first), and a tournament is opened by a line
\* that starts with the marker.
C19_TournamentsInOpeningOrder ==
    /\ \A i, j \in 1..Len(tournaments) :
           i < j => opened_at[tournaments[i]] < opened_at[tournaments[j]]
    /\ \A i \in 1..Len(tournaments) :
           opened_at[tournaments[i]] # 0 =>
               OpensTournament(TextStrip(lines[opened_at[tournaments[i]]]))

\* The output holds two tournaments, each opened by a line of the input.
C19_Witness ==
    /\ dec_pc = "done"
    /\ Len(tournaments) = 2
    /\ opened_at[tournaments[1]] # 0
    /\ opened_at[tournaments[2]] # 0

\* The line the loop reads in this step.
LineRead == lines[line_no + 1]

\* C20: a field read from a line is stored in the dict that
\* current_tournament or current_result is bound to when it is stored, under
\* the code and with the value of that line; and a dict that was appended to
\* the list tournaments, or to the results of a tournament, is never changed
\* by a later line or by the end of the input.
C20_SealedRecordsAreFinal ==
    /\ [][ \A i \in Sealed : heap'[i] = heap[i] ]_vars
    /\ [][ dec_pc = "loop" /\ line_no' = line_no + 1 =>
               \A i \in 1..Len(heap) :
                   heap'[i].fields # heap[i].fields =>
                       /\ i \in {current_tournament', current_result'}
                       /\ ~Skipped(LineRead)
                       /\ heap'[i].fields =
                              SetItem(heap[i], KeyOf(TextStrip(LineRead)),
                                      ValueOf(TextStrip(LineRead))).fields
          ]_vars

\* The output holds one tournament with two results, the first of them
\* sealed by a Result-open line that was read after it had been filled.
C20_Witness ==
    /\ dec_pc = "done"
    /\ line_no = MaxLines
    /\ Len(tournaments) = 1
    /\ Len(heap[tournaments[1]].results) = 2

\* What the two converters are to give for a feed: per tournament its name
\* and its code, and per result its id, its timestamp as a number and the
\* standard end; every other field is None.
ExpectedNice(feed) ==
    [tag |-> "json",
     data |-> [ i \in 1..Len(feed) |->
         [fields |-> [ d \in DOMAIN TournamentFields |->
                         IF d = "tourney_name" THEN PyStr(feed[i].name)
                         ELSE IF d = "tourney_code" /\ feed[i].coded
                              THEN PyStr(<<"c">>)
                         ELSE PyNone ],
          results |-> [ j \in 1..Len(feed[i].stamps) |->
              [ d \in DOMAIN NormalizeResult(EmptyItems) |->
                  IF d = "game_src_id" THEN PyStr(<<"r">>)
                  ELSE IF d = "game_ts" THEN PyInt(feed[i].stamps[j])
                  ELSE IF d = "game_end" THEN PyStr("standard")
                  ELSE PyNone ] ]] ]]

\* C21: for a feed of N tournaments with M results each, written with the
\* codes of the table, the decoder followed by the normalizer gives exactly
\* N tournament objects with M result objects each and the values that were
\* put in: the normalizer does not raise, and what it writes is the feed.
C21_RoundTrip ==
    \A feed \in Feeds :
        raw_txt = TextFile(FeedText(feed)) /\ dec_pc = "done" =>
            /\ nice_pc # "key_error"
            /\ nice_pc = "done" => nice_json = ExpectedNice(feed)

\* Everything after the first separator of a line that holds one.
AfterFirstSep(line) ==
    LET i == CHOOSE k \in 1..Len(line) :
                 line[k] = Sep /\ \A j \in 1..(k - 1) : line[j] # Sep
    IN  SubSeq(line, i + 1, Len(line))

\* The dict a line's field is stored in once the line was read: the current
\* tournament for a tournament code, the current result for a code the
\* result takes, none (0) for SA.
StoredIn(line) ==
    IF KeyOf(line) \in TournamentKeys THEN current_tournament'
    ELSE IF KeyOf(line) # <<"S", "A">> THEN current_result'
    ELSE 0

\* C22: the value stored for a line that is not skipped is everything after
\* the first separator of the line, further separators included.
C22_ValueIsRestOfLine ==
    [][ dec_pc = "loop" /\ line_no' = line_no + 1 /\ ~Skipped(LineRead)
        /\ StoredIn(TextStrip(LineRead)) # 0 =>
            heap'[StoredIn(TextStrip(LineRead))].fields[
                KeyOf(TextStrip(LineRead))] = AfterFirstSep(TextStrip(LineRead))
      ]_vars

\* The dicts whose string items a step has changed or, for a dict the step
\* created, filled.
FieldsChanged ==
    { i \in 1..Len(heap') :
        heap'[i].fields # (IF i <= Len(heap) THEN heap[i].fields ELSE EmptyItems) }

\* C23: routing by code is a partition.  A line with a tournament code
\* changes the items of the current tournament only, a line with the code SA
\* changes no dict, a line with any other code changes the items of the
\* current result only; and in the list written to the .raw.json file no
\* result holds a tournament code or SA and no tournament holds another code.
C23_RoutingIsPartition ==
    /\ [][ dec_pc = "loop" /\ line_no' = line_no + 1 /\ ~Skipped(LineRead) =>
              FieldsChanged \subseteq
                  (IF StoredIn(TextStrip(LineRead)) = 0 THEN {}
                   ELSE {StoredIn(TextStrip(LineRead))}) ]_vars
    /\ [](dec_pc = "done" =>
              \A i \in 1..Len(raw_json.data) :
                  /\ DOMAIN raw_json.data[i].fields \subseteq TournamentKeys
                  /\ \A j \in 1..Len(raw_json.data[i].results) :
                         DOMAIN raw_json.data[i].results[j]
                             \cap (TournamentKeys \cup {<<"S", "A">>}) = {})

\* The file held a tournament line, an SA line and a result field, and the
\* list written holds one tournament with a field and one result with a field.
C23_Witness ==
    /\ dec_pc = "done"
    /\ \E n \in 1..Len(lines) : KeyOf(TextStrip(lines[n])) = <<"S", "A">>
    /\ Len(raw_json.data) = 1
    /\ DOMAIN raw_json.data[1].fields # {}
    /\ Len(raw_json.data[1].results) = 1
    /\ DOMAIN raw_json.data[1].results[1] # {}

\* The lines of the input that carry a result-level field.
ResultFieldLines ==
    { n \in 1..Len(lines) :
        /\ ~Skipped(lines[n])
        /\ KeyOf(TextStrip(lines[n])) \notin TournamentKeys \cup {<<"S", "A">>} }

\* C24: at the end of the input a non-empty pending result is appended to
\* the results of the current tournament, and the current tournament, when it
\* is non-empty then, is appended to the output; so the code of every
\* result-level line of the input is found in a result of the list written,
\* whether or not the input has a tournament-level line.
C24_PendingResultIsFlushed ==
    /\ [][ dec_pc = "loop" /\ dec_pc' = "done" =>
              /\ DictTruthy(heap[current_result]) =>
                     current_result \in Range(heap'[current_tournament].results)
              /\ DictTruthy(heap'[current_tournament]) =>
                     current_tournament \in Range(tournaments') ]_vars
    /\ [](dec_pc = "done" =>
              \A n \in ResultFieldLines :
                  \E i \in 1..Len(raw_json.data) :
                      \E j \in 1..Len(raw_json.data[i].results) :
                          KeyOf(TextStrip(lines[n]))
                              \in DOMAIN raw_json.data[i].results[j])

\* The results of the list in the .raw.json file, as places (i, j).
DecodedResults ==
    { <<i, j>> \in (1..Len(raw_json.data)) \X (1..MaxLines + 1) :
        j <= Len(raw_json.data[i].results) }

\* C25: for every decoded result the normalizer sets game_end to "overtime"
\* exactly when the raw value of AC is the string "10", and to "standard"
\* otherwise, also when the result has no AC.
C25_GameEndFromAC ==
    nice_pc = "done" =>
        \A r \in DecodedResults :
            LET raw_res == raw_json.data[r[1]].results[r[2]]
                game_end == nice_json.data[r[1]].results[r[2]].game_end
            IN  IF <<"A", "C">> \in DOMAIN raw_res
                   /\ raw_res[<<"A", "C">>] = <<"1", "0">>
                THEN game_end = PyStr("overtime")
                ELSE game_end = PyStr("standard")

\* The normalizer has written a result with AC "10" and a result with
\* another AC.
C25_Witness ==
    /\ nice_pc = "done"
    /\ \E r \in DecodedResults :
           nice_json.data[r[1]].results[r[2]].game_end = PyStr("overtime")
    /\ \E r \in DecodedResults :
           /\ <<"A", "C">> \in DOMAIN raw_json.data[r[1]].results[r[2]]
           /\ nice_json.data[r[1]].results[r[2]].game_end = PyStr("standard")

\* What a destination that takes the raw string is to hold.
TextOrNone(items, code) ==
    IF code \in DOMAIN items THEN PyStr(items[code]) ELSE PyNone

\* What a numeric destination is to hold: None when the code is absent, its
\* value empty or not the text of an integer, else that integer.
NumberOrNone(items, code) ==
    IF code \notin DOMAIN items THEN PyNone
    ELSE IF items[code] = <<>> \/ ~IntOfStr(items[code]).ok THEN PyNone
    ELSE PyInt(IntOfStr(items[code]).n)

\* C26: in what the normalizer writes, a destination whose raw code is
\* absent holds None, a numeric destination holds None as well when the raw
\* value is empty or not an integer string, and every destination other than
\* game_end holds None or the raw value (as a string, or as the integer it
\* spells): none of them gets a default.
C26_AbsentIsNone ==
    nice_pc = "done" =>
        /\ \A i \in 1..Len(raw_json.data) : \A d \in DOMAIN TournamentFields :
               nice_json.data[i].fields[d] =
                   TextOrNone(raw_json.data[i].fields, TournamentFields[d])
        /\ \A r \in DecodedResults :
               LET raw_res == raw_json.data[r[1]].results[r[2]]
                   nice_res == nice_json.data[r[1]].results[r[2]]
               IN  /\ \A d \in DOMAIN ResultTextFields :
                          nice_res[d] = TextOrNone(raw_res, ResultTextFields[d])
                   /\ \A d \in DOMAIN ResultIntFields :
                          nice_res[d] = NumberOrNone(raw_res, ResultIntFields[d])
                   /\ DOMAIN nice_res = DOMAIN ResultTextFields
                          \cup DOMAIN ResultIntFields \cup {"game_end"}

\* The normalizer has written a result whose AD spelled a number and a
\* result whose AD was there and spelled none.
C26_Witness ==
    /\ nice_pc = "done"
    /\ \E r \in DecodedResults :
           nice_json.data[r[1]].results[r[2]].game_ts = PyInt(7)
    /\ \E r \in DecodedResults :
           /\ <<"A", "D">> \in DOMAIN raw_json.data[r[1]].results[r[2]]
           /\ nice_json.data[r[1]].results[r[2]].game_ts = PyNone
           /\ nice_json.data[r[1]].results[r[2]].game_src_id # PyNone

\* C27: a conversion stage whose input file is absent raises and leaves
\* both output files of the prefix as they were: the decoder when there is
\* no .raw.txt file, the normalizer when there is no .raw.json file.
C27_MissingInputKeepsOutput ==
    /\ [][ dec_pc = "idle" /\ dec_pc' # "idle" /\ raw_txt = NoFile =>
              /\ dec_pc' = "raised"
              /\ raw_json' = raw_json
              /\ nice_json' = nice_json ]_vars
    /\ [][ nice_pc = "idle" /\ nice_pc' # "idle" /\ raw_json = NoFile =>
              /\ nice_pc' = "raised"
              /\ raw_json' = raw_json
              /\ nice_json' = nice_json ]_vars
    /\ [](dec_pc = "raised" => raw_json \in {NoFile, EarlierRawJson})

\* Both stages have raised for a prefix without .raw.txt and .raw.json
\* files, and the .json file of the earlier run is still there.
C27_Witness ==
    /\ dec_pc = "raised"
    /\ nice_pc = "raised"
    /\ nice_json = EarlierNiceJson

\* The batch function is over: it returned after the load step, or an
\* exception left it.
BatchEnded == batch_pc \in {"returned", "raised"}

\* C28: in a scrape batch a unit that fails, by a fetch that exhausts its
\* retries or raises, and by the missing .raw.txt file that follows, does
\* not stop the batch: when the batch function is over and no other failure
\* occurred, every unit was scraped and converted and the load step has run.
C28_FailedUnitDoesNotStopBatch ==
    BatchEnded /\ raised_in # "to_nice" =>
        /\ \A u \in 1..NumUnits :
               /\ fetched[u] # "none"
               /\ fetched[u] = "returned" => unit_files[u].nice_json = "fresh"
        /\ load_ran

\* C29: a Result-open line that finds the current result non-empty appends
\* it, unchanged, at the end of the current tournament's results and stores
\* its own field in a new dict that holds nothing else; and in every results
\* list the results stand in the order of the Result-open lines that opened
\* them (a result that no line opened can only be the first).
C29_ResultsInOpeningOrder ==
    /\ [][ /\ dec_pc = "loop" /\ line_no' = line_no + 1
           /\ ~Skipped(LineRead) /\ OpensResult(TextStrip(LineRead))
           /\ DictTruthy(heap[current_result])
           => /\ heap'[current_tournament'].results =
                     Append(heap[current_tournament].results, current_result)
              /\ heap'[current_result].fields = heap[current_result].fields
              /\ current_result' \notin 1..Len(heap)
              /\ DOMAIN heap'[current_result'].fields
                     = {KeyOf(TextStrip(LineRead))} ]_vars
    /\ [](\A i \in 1..Len(heap) : \A j, k \in 1..Len(heap[i].results) :
              /\ j < k => opened_at[heap[i].results[j]]
                              < opened_at[heap[i].results[k]]
              /\ opened_at[heap[i].results[j]] # 0 =>
                     OpensResult(TextStrip(
                         lines[opened_at[heap[i].results[j]]])))

\* The output holds a tournament with two results, each opened by a
\* Result-open line of the input.
C29_Witness ==
    /\ dec_pc = "done"
    /\ \E i \in 1..Len(tournaments) :
           /\ Len(heap[tournaments[i]].results) = 2
           /\ opened_at[heap[tournaments[i]].results[1]] # 0
           /\ opened_at[heap[tournaments[i]].results[2]] # 0

\* C30: every tournament of the list the decoder writes carries a results
\* list, an empty one when no result was read for the tournament.
C30_TournamentsCarryResults ==
    dec_pc = "done" =>
        \A i \in 1..Len(raw_json.data) : raw_json.data[i].has_results

\* Line n of the input is read and starts with the given marker and code.
MarkedLine(n, code) ==
    ~Skipped(lines[n]) /\ StartsWith(TextStrip(lines[n]), <<Tilde>> \o code)

\* The lines <<m, n>> of the input where m is a Tournament-open line of the
\* code ZA and n a later result-level line without marker, with no
\* Tournament-open and no Result-open line from m to n: the field of line n
\* is read in the tournament of line m before its first Result-open line.
StrayFields ==
    { mn \in (1..Len(lines)) \X ResultFieldLines :
        /\ mn[1] < mn[2]
        /\ MarkedLine(mn[1], <<"Z", "A">>)
        /\ KeyOf(TextStrip(lines[mn[1]])) = <<"Z", "A">>
        /\ \A k \in (mn[1] + 1)..mn[2] :
               ~MarkedLine(k, <<"Z", "A">>) /\ ~MarkedLine(k, <<"A", "A">>) }

ZALines ==
    { n \in 1..Len(lines) :
        ~Skipped(lines[n]) /\ KeyOf(TextStrip(lines[n])) = <<"Z", "A">> }

\* C32: only a line whose code is exactly ZA appends the current tournament
\* to the output and opens a new one; a marker-prefixed line with another
\* tournament code (ZAC, ZAF) leaves the list as it is, so the output never
\* holds more tournaments than the input has ZA lines, plus one.
C32_OnlyZASeals ==
    /\ [][ dec_pc = "loop" /\ line_no' = line_no + 1
           /\ tournaments' # tournaments
           => /\ ~Skipped(LineRead)
              /\ KeyOf(TextStrip(LineRead)) = <<"Z", "A">> ]_vars
    /\ [](dec_pc = "done" => Len(tournaments) <= Cardinality(ZALines) + 1)

\* C33: the normalizer is total on what the decoder writes: it does not
\* raise, and it writes one tournament per decoded tournament in the same
\* order, each with as many results as the decoded one and in their order.
C33_NormalizerIsTotal ==
    dec_pc = "done" =>
        /\ nice_pc \notin {"raised", "key_error"}
        /\ nice_pc = "done" =>
               /\ Len(nice_json.data) = Len(raw_json.data)
               /\ \A i \in 1..Len(raw_json.data) :
                      /\ nice_json.data[i].fields.tourney_name =
                             TextOrNone(raw_json.data[i].fields, <<"Z", "A">>)
                      /\ Len(nice_json.data[i].results) =
                             Len(raw_json.data[i].results)
               /\ \A r \in DecodedResults :
                      nice_json.data[r[1]].results[r[2]].game_src_id =
                          TextOrNone(raw_json.data[r[1]].results[r[2]],
                                     <<"A", "A">>)

\* C40: a line that is blank after strip() or holds no separator is passed
\* over without an error and changes nothing of the decoder's state (the
\* list tournaments, the current tournament, the current result and every
\* dict), whether or not it starts with a marker.
C40_SkippedLineChangesNothing ==
    [][ dec_pc = "loop" /\ line_no' = line_no + 1 /\ Skipped(LineRead) =>
           /\ dec_pc' = "loop"
           /\ heap' = heap
           /\ tournaments' = tournaments
           /\ current_tournament' = current_tournament
           /\ current_result' = current_result ]_vars

\* A line that starts with the Tournament-open marker and has no separator
\* was passed over while a tournament and a result were being filled.
C40_Witness ==
    /\ dec_pc = "loop"
    /\ line_no = 3
    /\ Skipped(lines[3])
    /\ OpensTournament(TextStrip(lines[3]))
    /\ DictTruthy(heap[current_tournament])
    /\ DictTruthy(heap[current_result])


\* The second validation run of initialize() is entered.
SecondBatchStarts == init_pc = "validate_new" /\ run_pc = "none" /\ run_pc' # "none"

\* C34: in one initialize(), the second validation batch is exactly the
\* endpoints of the candidate file minus the validated set left by
\* re-validation, each listed once; during the second run no endpoint outside
\* that batch is health-checked, and none is checked more than once.
C34_SecondBatchIsRemainder ==
    /\ [][ SecondBatchStarts =>
              /\ Range(proxy_list') = Range(proxies_file) \ valid_proxies
              /\ Len(proxy_list') = Cardinality(Range(proxy_list')) ]_vars
    /\ [](init_pc = "validate_new" /\ run_pc # "none" =>
              \A p \in Endpoints :
                  /\ run_log.checked[p] <= 1
                  /\ run_log.checked[p] = 1 => p \in Range(proxy_list))

\* The candidate file names one endpoint twice, another endpoint survived
\* re-validation, and the second run has returned: one check, of the
\* candidate only.
C34_Witness ==
    /\ init_pc = "save"
    /\ Len(proxies_file) = 2
    /\ proxies_file[1] = proxies_file[2]
    /\ proxy_list = << proxies_file[1] >>
    /\ run_log.checked[proxies_file[1]] = 1
    /\ \E q \in valid_proxies \cap Range(valid_file) :
           q # proxies_file[1] /\ run_log.checked[q] = 0


\* How many of the first n items of list are p.
CountIn(p, list, n) == Cardinality({ i \in 1..n : list[i] = p })

\* The threads that hold p and have not checked it yet.
Holding(p) ==
    Copies(workers, { w \in BagToSet(workers) : w.pc = "check" /\ w.proxy = p })

\* The threads between a get() and the task_done() that answers it.
Busy == ThreadsAt(workers, "check") + ThreadsAt(workers, "task_done")

\* The get() calls of the log, over all endpoints.
RECURSIVE Total(_, _)
Total(f, S) ==
    IF S = {} THEN 0
    ELSE LET p == CHOOSE x \in S : TRUE IN f[p] + Total(f, S \ {p})

\* C35: in a validation run, under every interleaving, an enqueued candidate
\* is taken off the queue by one get() call, the thread that took it checks
\* it once, task_done() is called once for every get(), and the run starts
\* at most the configured number of threads; when the run returns every
\* candidate of its list has been taken, checked and marked done once.
C35_EachCandidateOnce ==
    /\ [](\A p \in Endpoints :
              /\ run_log.dequeued[p] <= CountIn(p, proxy_list, put_count)
              /\ run_log.dequeued[p] = run_log.checked[p] + Holding(p))
    /\ [](Total(run_log.dequeued, Endpoints) = run_log.task_done + Busy)
    /\ [](started <= NumWorkers)
    /\ [][ run_pc = "join" /\ run_pc' = "none" =>
              /\ run_log.task_done = Len(proxy_list)
              /\ \A p \in Endpoints :
                     /\ run_log.dequeued[p] = CountIn(p, proxy_list, Len(proxy_list))
                     /\ run_log.checked[p] = run_log.dequeued[p] ]_vars

\* A run over two candidates has returned with two checks and two
\* task_done() calls while one of its threads is still blocked in get().
C35_Witness ==
    /\ init_pc = "validate_new"
    /\ run_pc = "none"
    /\ Len(proxy_list) = 2
    /\ run_log.task_done = 2
    /\ \A p \in Range(proxy_list) : run_log.checked[p] = 1
    /\ ThreadsAt(workers, "get") > 0


\* C36: when every health check ends and the threads are scheduled fairly, a
\* validation run that was entered returns to its caller, whatever the
\* number of candidates: none, fewer than threads, as many, or more.
C36_RunReturns == (run_pc # "none") ~> (run_pc = "none")

\* A run over no candidate has started its threads and has returned.
C36_Witness ==
    /\ run_pc = "none"
    /\ proxy_list = <<>>
    /\ started = NumWorkers
    /\ run_log = NoCalls


\* A file that this run did not write.
NotWrittenInRun == {"absent", "earlier"}

\* C37: the .raw.json and .json files written for a prefix in a run are
\* derived from the response fetched for that prefix in the same run; when
\* the fetch of a prefix did not return a response, the run writes no output
\* for that prefix from a .raw.txt file an earlier run left.
C37_OutputFromThisRunsResponse ==
    \A u \in 1..NumUnits :
        /\ unit_files[u].raw_json # "stale"
        /\ unit_files[u].nice_json # "stale"
        /\ fetched[u] # "returned" =>
               /\ unit_files[u].raw_json \in NotWrittenInRun
               /\ unit_files[u].nice_json \in NotWrittenInRun


\* The loader has returned its statistics.
LoadReturned == load_pc = "returned"

\* C38: in load_scraped_data_to_db an exception while one file is processed
\* does not stop the loop: no file is taken up twice, and when the function
\* returns every .json file it found was taken up once and files_processed +
\* files_failed is the number of files found.
C38_EveryFileAttemptedOnce ==
    /\ \A f \in 1..NumFiles : folder_files[f].attempts <= 1
    /\ LoadReturned =>
           /\ total_stats.files_processed + total_stats.files_failed
                  = Len(json_files)
           /\ \A f \in 1..NumFiles :
                  folder_files[f].attempts = IF f \in Range(json_files) THEN 1 ELSE 0

\* NumFiles files were found; the transaction of the first was rolled back,
\* every file but the last was counted as failed, and the loop still went on
\* to the last, which was loaded and moved.
C38_Witness ==
    /\ LoadReturned
    /\ Len(json_files) = NumFiles
    /\ folder_files[json_files[1]].rows = "rolled_back"
    /\ folder_files[json_files[NumFiles]].counted = "processed"
    /\ total_stats.files_failed = NumFiles - 1

\* C39: a file is in the output folder if and only if its own transaction
\* committed; a file counted as failed is still in the input folder and none
\* of its rows are committed; the transaction of one file leaves the rows of
\* every other file as they are.
C39_MovedIffCommitted ==
    /\ [](LoadReturned =>
              \A f \in Range(json_files) :
                  /\ folder_files[f].in_output <=> folder_files[f].rows = "committed"
                  /\ folder_files[f].counted = "failed" =>
                         /\ folder_files[f].in_input
                         /\ folder_files[f].rows # "committed")
    /\ [][ \A f \in 1..NumFiles :
               folder_files'[f].rows # folder_files[f].rows => f = FilePath ]_vars

====
